---- MODULE Spec2Model ----
(***************************************************************************)
(* finsights: the document store (finsights/db/connection.py) and the      *)
(* registrar (finsights/services/fetcher/link_fetcher.py), driven by       *)
(* concurrent callers.  Every caller opens its own SQLite connection       *)
(* (get_conn); a data-changing statement takes the database write lock and *)
(* its effect becomes visible to the others at commit.  A caller whose     *)
(* statement finds the lock taken waits (sqlite3's busy handler) and runs  *)
(* it once the lock is free; the busy timeout is not modelled.             *)
(*                                                                         *)
(* Beside the store (Spec), three specifications over the same variables   *)
(* follow one call each of the relevance filter (SpecFilter), of           *)
(* create_transcript_list with its page tasks (SpecDiscovery) and of       *)
(* download_pdfs with its download tasks and files (SpecDownload).         *)
(***************************************************************************)
EXTENDS Integers, Sequences, FiniteSets, TLC

\* ------------------------------------------------------------------ bounds
MaxDocs == 2        \* distinct transcript uuids
MaxCallers == 2     \* concurrent callers (connections)
MaxTime == 1        \* the wall clock runs over 0..MaxTime (seconds)
MaxItems == 1       \* longest list handed to transcripts_to_dbstate
MaxCalls == 4       \* calls the callers make in one behaviour
MaxAnnouncements == 2   \* most announcements on a page handed to the filter
MaxPageSize == 2    \* most announcements on a page of the feed
MaxRows == 5        \* most rows the feed reports for a date window
MaxChunks == 1      \* most chunks in the body of a PDF
MaxPdfPages == 2    \* most pages of a PDF

\* --------------------------------------------------------------- constants
BSE_PDF_URL_PAST == "AttachHis/"
BSE_PDF_URL_CURRENT == "AttachLive/"
\* timedelta(days=60), in clock units of the model
ArchiveAge == 1
\* config.py has 10 concurrent page fetches; scaled down, above the PDF limit
MAX_CONCURRENT_JSON_REQUESTS == 2
\* config.py has 3 concurrent PDF downloads; scaled down likewise
MAX_CONCURRENT_PDF_REQUESTS == 1
\* config.py has 10 conversion workers; scaled down likewise
MAX_CONCURRENT_CONVERSION_WORKERS == 2

\* ------------------------------------------------------------------ values
UuidSeq == [i \in 1..MaxDocs |-> "u" \o ToString(i)]
UuidOf(i) == UuidSeq[i]
Uuids == {UuidSeq[i] : i \in 1..MaxDocs}
Callers == 1..MaxCallers
Attachments == {"a.pdf", "b.pdf"}
PdfNames == {"p.pdf", "q.pdf"}
TextNames == {"a.txt"}
Reasons == {"timeout"}
Statuses == {"discovered", "downloaded", "parsed", "failed"}

\* SQL NULL / Python None; a present value v of a nullable column is <<v>>
Null == <<>>
Some(v) == <<v>>

NoRows == [u \in {} |-> Null]

\* hashlib.sha256(pdf_url.encode()).hexdigest(): one digest per URL
Sha256(url) == "sha256:" \o url

\* Announcements of the feed as transcripts_to_dbstate reads them; NEWS_DT is
\* <<seconds, fraction>> ("%Y-%m-%dT%H:%M:%S.%f").
RawItems ==
    { [SLONGNAME |-> "Corp " \o a, SCRIP_CD |-> "code " \o a,
       ATTACHMENTNAME |-> a, NEWS_DT |-> <<-1, f>>] : a \in Attachments, f \in {5} }

RECURSIVE SeqsUpTo(_, _)
SeqsUpTo(S, n) ==
    IF n = 0 THEN {<<>>}
    ELSE LET shorter == SeqsUpTo(S, n - 1)
         IN  shorter \cup {Append(s, x) : s \in {t \in shorter : Len(t) = n - 1}, x \in S}

\* The lists handed to transcripts_to_dbstate
TranscriptLists == SeqsUpTo(RawItems, MaxItems)

\* Documents as the store's direct callers build them (tests/conftest.py)
SampleDocuments ==
    { [uuid |-> u, company_name |-> "Corp " \o a, script_code |-> "code " \o a,
       pdf_url |-> BSE_PDF_URL_PAST \o a,
       pdf_url_sha256 |-> Sha256(BSE_PDF_URL_PAST \o a),
       json_text |-> "{}", announcement_date |-> 0] : u \in Uuids, a \in Attachments }

\* ------------------------------------------------------------------- state
VARIABLES
    db,        \* committed rows of table documents: transcript_uuid -> row
    lock,      \* the caller holding the database write lock, 0 when free
    pending,   \* rows written by the open write transaction, not yet committed
    pc,        \* per caller: "idle", "wait" (for the lock), "commit", "reg"
    op,        \* per caller: the store operation whose transaction is open
    reg,       \* per caller: the frame of a running transcripts_to_dbstate
    finished,  \* the calls that have ended, with what they returned or raised
    now,       \* the wall clock, in seconds
    observed,  \* per uuid: the statuses its committed row has had so far
    calls,     \* calls made so far
    flt,       \* the frame of a filter_transcripts_from_json call
    disc,      \* the frame of a create_transcript_list call and its page tasks
    dl,        \* the frame of a download_pdfs call, its tasks and the PDF files
    cv,        \* the conversions: the calls of convert_pdfs, their workers, the files
    main       \* the frame of a run of the pipeline (main.py)

storeVars == <<db, lock, pending, pc, op, reg, finished, now, observed, calls>>
stageVars == <<flt, disc, dl, cv, main>>
vars == <<db, lock, pending, pc, op, reg, finished, now, observed, calls,
          flt, disc, dl, cv, main>>

\* The stages that are not running
NoFilter == [pc |-> "none"]
NoDiscovery == [pc |-> "none"]
NoDownload == [pc |-> "none"]
NoConversion == [pc |-> "none"]
NoMain == [pc |-> "none"]

NoOp == [name |-> "none", uuid |-> "", arg |-> ""]
NoReg == [active |-> FALSE, items |-> <<>>, i |-> 0, ids |-> <<>>]
Returned(v) == [type |-> "return", value |-> v]
Raised(t, msg) == [type |-> t, value |-> msg]

\* ------------------------------------------------------------ the store
\* A reading of the clock: time has passed since the reading before it
NowRead == now..MaxTime

\* Two successive now_ist_str() readings: the second may fall in the next second.
NowReads == {ts \in NowRead \X NowRead : ts[2] \in {ts[1], ts[1] + 1}}

\* The keys insert_document reads, in the order it reads them
InsertKeys ==
    <<"uuid", "company_name", "script_code", "pdf_url", "pdf_url_sha256",
      "json_text", "announcement_date">>

\* The first key insert_document reads that doc lacks ("" when it has all)
MissingKey(doc) ==
    LET missing == {k \in 1..Len(InsertKeys) : InsertKeys[k] \notin DOMAIN doc}
    IN  IF missing = {} THEN ""
        ELSE InsertKeys[CHOOSE k \in missing : \A j \in missing : k <= j]

\* The row INSERT creates: the columns it names, every other column NULL
InsertedRow(doc, t1, t2) ==
    [company_name |-> doc.company_name, script_code |-> doc.script_code,
     pdf_url |-> doc.pdf_url, pdf_url_sha256 |-> doc.pdf_url_sha256,
     json_text |-> doc.json_text, created_at |-> t1,
     announcement_date |-> doc.announcement_date, updated_at |-> t2,
     processing_status |-> "discovered",
     pdf_file_name |-> Null, pdf_created_at |-> Null,
     text_file_name |-> Null, text_file_created_at |-> Null,
     error_message |-> Null]

\* The table's constraints: transcript_uuid is the key, pdf_url_sha256 UNIQUE.
\* The column whose constraint an insert of doc violates ("" when none).
ConstraintViolated(tables, doc) ==
    IF doc.uuid \in DOMAIN tables THEN "transcript_uuid"
    ELSE IF \E u \in DOMAIN tables : tables[u].pdf_url_sha256 = doc.pdf_url_sha256
         THEN "pdf_url_sha256"
         ELSE ""

\* Variants of the WHERE clause of mark_document_downloaded: no status test;
\* a failed row is taken too; a downloaded row is taken again
DownloadedWhereAny(row) == TRUE

DownloadedWhereOrFailed(row) == row.processing_status \in {"discovered", "failed"}

DownloadedWhereAgain(row) == row.processing_status \in {"discovered", "downloaded"}

\* WHERE ... AND processing_status='discovered'
DownloadedWhere(row) == row.processing_status = "discovered"

\* Variant of the SET clause that leaves pdf_file_name alone
DownloadedSetNoName(row, pdf_file_name, t1, t2) ==
    [row EXCEPT !.processing_status = "downloaded", !.updated_at = t1,
                !.pdf_created_at = Some(t2)]

\* SET processing_status='downloaded', updated_at=?, pdf_created_at=?, pdf_file_name=?
DownloadedSet(row, pdf_file_name, t1, t2) ==
    [row EXCEPT !.processing_status = "downloaded", !.updated_at = t1,
                !.pdf_created_at = Some(t2), !.pdf_file_name = Some(pdf_file_name)]

\* Variants of the WHERE clause of mark_document_parsed: no status test; a
\* discovered row is taken too
ParsedWhereAny(row) == TRUE

ParsedWhereEarly(row) == row.processing_status \in {"discovered", "downloaded"}

\* WHERE ... AND processing_status='downloaded'
ParsedWhere(row) == row.processing_status = "downloaded"

\* SET processing_status='parsed', updated_at=?, text_file_created_at=?, text_file_name=?
ParsedSet(row, text_file_name, t1, t2) ==
    [row EXCEPT !.processing_status = "parsed", !.updated_at = t1,
                !.text_file_created_at = Some(t2), !.text_file_name = Some(text_file_name)]

\* Variant of the SET clause that leaves error_message alone
FailedSetNoMessage(row, error_message, t1) ==
    [row EXCEPT !.processing_status = "failed", !.updated_at = t1]

\* Variant of the SET clause that stamps created_at too
FailedSetRestamped(row, error_message, t1) ==
    [row EXCEPT !.processing_status = "failed", !.updated_at = t1,
                !.created_at = t1, !.error_message = Some(error_message)]

\* SET processing_status='failed', updated_at=?, error_message=?
FailedSet(row, error_message, t1) ==
    [row EXCEPT !.processing_status = "failed", !.updated_at = t1,
                !.error_message = Some(error_message)]

\* Variant that reports every unmatched UPDATE as a transition from a wrong status
TransitionErrorNoLookup(tables, uuid, expected) ==
    Raised("ValueError",
           <<"Expected '", expected, "', found '",
             IF uuid \in DOMAIN tables THEN tables[uuid].processing_status ELSE "None", "'">>)

\* rowcount == 0: re-read the row and raise the ValueError that classifies it
TransitionError(tables, uuid, expected) ==
    IF uuid \notin DOMAIN tables
    THEN Raised("ValueError", <<"Document '", uuid, "' not found">>)
    ELSE Raised("ValueError",
                <<"Expected '", expected, "', found '", tables[uuid].processing_status, "'">>)

\* ------------------------------------------------------- call and return
\* A finished call and what it returned or raised
Call(o, res) == [name |-> o.name, uuid |-> o.uuid, arg |-> o.arg, result |-> res]

\* The call c is running, as its caller sees it
Running(c, o) ==
    IF reg[c].active
    THEN [name |-> "transcripts_to_dbstate", uuid |-> "", arg |-> reg[c].items]
    ELSE o

\* finished holds the calls that overlap in time: a call made when c is idle
\* is a new one and starts from a clean slate.
Slate(c) == IF pc[c] = "idle" THEN {} ELSE finished

\* Uuids and callers are interchangeable, so of the states that differ only in
\* their names one is explored: a call is made by the lowest idle caller, and
\* names a uuid already in use or the lowest unused one.  A statement that
\* waited for the lock, and a turn of the registrar's loop, run before a new
\* call is made: run later, they do what the same call made later does.
UsedUuids ==
    (DOMAIN db \cup DOMAIN pending \cup {op[c].uuid : c \in Callers}) \cap Uuids

NextUuid ==
    LET free == {i \in 1..MaxDocs : UuidOf(i) \notin UsedUuids}
    IN  IF free = {} THEN {} ELSE {UuidOf(CHOOSE i \in free : \A j \in free : i <= j)}

CallableUuids == UsedUuids \cup NextUuid

\* The same for the attachment of an inserted document and for the file name
\* given to mark_document_downloaded: the first one used is "a.pdf", "p.pdf"
CallableAttachments ==
    IF /\ DOMAIN db = {}
       /\ \A k \in Callers : op[k].name # "insert_document"
    THEN {"a.pdf"}
    ELSE Attachments

CallablePdfNames ==
    IF /\ \A u \in DOMAIN db : db[u].pdf_file_name = Null
       /\ \A k \in Callers : op[k].name # "mark_document_downloaded"
    THEN {"p.pdf"}
    ELSE PdfNames

Caller(c) ==
    /\ pc[c] = "idle"
    /\ \A k \in Callers : k < c => pc[k] # "idle"
    /\ \A k \in Callers : pc[k] = "wait" => lock # 0
    /\ \A k \in Callers : pc[k] # "reg"
    /\ calls < MaxCalls

\* The waiting caller whose statement runs when the lock is free
Waiter(c) ==
    /\ pc[c] = "wait"
    /\ \A k \in Callers : k < c => pc[k] # "wait"

\* c makes a call now, or made it earlier and its statement waited for the lock
Calls(c) ==
    /\ Caller(c) \/ Waiter(c)
    /\ calls' = IF pc[c] = "wait" THEN calls ELSE calls + 1

\* A call's statement finds the write lock taken: the caller waits (which call
\* it is shows when the statement runs)
Wait(c) ==
    /\ Caller(c)
    /\ calls' = calls + 1
    /\ lock # 0
    /\ pc' = [pc EXCEPT ![c] = "wait"]
    /\ finished' = Slate(c)
    /\ UNCHANGED <<db, lock, pending, op, reg, now, observed>>
    /\ UNCHANGED stageVars

\* The statement took the write lock and wrote rows: the commit is next
Written(c, o, rows) ==
    /\ pending' = rows
    /\ lock' = c
    /\ pc' = [pc EXCEPT ![c] = "commit"]
    /\ op' = [op EXCEPT ![c] = o]
    /\ finished' = Slate(c)
    /\ UNCHANGED <<db, reg, observed>>
    /\ UNCHANGED stageVars

\* insert_document returned inside transcripts_to_dbstate: the id is appended
\* and the loop goes on
Appended(c, uuid) ==
    /\ pc' = [pc EXCEPT ![c] = "reg"]
    /\ reg' = [reg EXCEPT ![c] = [@ EXCEPT !.i = @ + 1, !.ids = Append(@, uuid)]]
    /\ finished' = finished

\* insert_document raised IntegrityError inside transcripts_to_dbstate: the
\* except clause skips the item and the loop goes on
Skipped(c) ==
    /\ pc' = [pc EXCEPT ![c] = "reg"]
    /\ reg' = [reg EXCEPT ![c] = [@ EXCEPT !.i = @ + 1]]
    /\ finished' = finished

\* The call c is running ends with res, returned or raised to its caller
Finish(c, o, res) ==
    /\ pc' = [pc EXCEPT ![c] = "idle"]
    /\ reg' = [reg EXCEPT ![c] = NoReg]
    /\ finished' = Slate(c) \cup {Call(Running(c, o), res)}

\* The statement raised: get_conn rolls back (nothing was written), closes
\* the connection and re-raises
Raise(c, o, exc) ==
    /\ IF reg[c].active /\ exc.type = "IntegrityError"
       THEN Skipped(c)
       ELSE Finish(c, o, exc)
    /\ op' = [op EXCEPT ![c] = NoOp]
    /\ UNCHANGED <<db, lock, pending, observed>>
    /\ UNCHANGED stageVars

\* insert_document: the parameter tuple is built first (a missing key raises
\* KeyError before any statement runs), then the INSERT executes.
ExecInsert(c, doc, uuid, t) ==
    LET o == [name |-> "insert_document", uuid |-> uuid, arg |-> doc.pdf_url]
    IN  IF MissingKey(doc) # ""
        THEN /\ Raise(c, o, Raised("KeyError", <<MissingKey(doc)>>))
             /\ now' = t
        ELSE /\ lock = 0
             /\ \E ts \in {r \in NowReads : r[1] >= t} :
                  /\ now' = ts[2]
                  /\ IF ConstraintViolated(db, doc) # ""
                     THEN Raise(c, o, Raised("IntegrityError",
                                             <<"UNIQUE constraint failed: documents.",
                                               ConstraintViolated(db, doc)>>))
                     ELSE Written(c, o, doc.uuid :> InsertedRow(doc, ts[1], ts[2]))

\* mark_document_downloaded: the conditional UPDATE, then the rowcount check
ExecDownloaded(c, o) ==
    /\ lock = 0
    /\ \E ts \in NowReads :
         /\ now' = ts[2]
         /\ IF o.uuid \in DOMAIN db /\ DownloadedWhere(db[o.uuid])
            THEN Written(c, o, o.uuid :> DownloadedSet(db[o.uuid], o.arg, ts[1], ts[2]))
            ELSE Raise(c, o, TransitionError(db, o.uuid, "discovered"))

\* mark_document_parsed: the conditional UPDATE, then the rowcount check
ExecParsed(c, o) ==
    /\ lock = 0
    /\ \E ts \in NowReads :
         /\ now' = ts[2]
         /\ IF o.uuid \in DOMAIN db /\ ParsedWhere(db[o.uuid])
            THEN Written(c, o, o.uuid :> ParsedSet(db[o.uuid], o.arg, ts[1], ts[2]))
            ELSE Raise(c, o, TransitionError(db, o.uuid, "downloaded"))


\* Variant of the UPDATE of mark_document_failed that stores a row when there
\* is none
FailedRowsUpserted(tables, uuid, error_message, t) ==
    uuid :> FailedSet(IF uuid \in DOMAIN tables THEN tables[uuid]
                      ELSE InsertedRow([uuid |-> uuid, company_name |-> "",
                                        script_code |-> "", pdf_url |-> "",
                                        pdf_url_sha256 |-> "", json_text |-> "",
                                        announcement_date |-> 0], t, t),
                      error_message, t)

\* The rows the UPDATE of mark_document_failed writes: the row of the id,
\* none when the id has no row
FailedRows(tables, uuid, error_message, t) ==
    IF uuid \in DOMAIN tables
    THEN uuid :> FailedSet(tables[uuid], error_message, t)
    ELSE NoRows

\* mark_document_failed: the unconditional UPDATE; its rowcount is not read
ExecFailed(c, o) ==
    /\ lock = 0
    /\ \E t \in NowRead :
         /\ now' = t
         /\ Written(c, o, FailedRows(db, o.uuid, o.arg, t))

\* The calls of the store's operations
DownloadedCall(u, f) == [name |-> "mark_document_downloaded", uuid |-> u, arg |-> f]

ParsedCall(u, f) == [name |-> "mark_document_parsed", uuid |-> u, arg |-> f]

FailedCall(u, r) == [name |-> "mark_document_failed", uuid |-> u, arg |-> r]

\* A caller invokes one of the store's operations (arguments as in the tests
\* of the store)
InsertDocument(c) ==
    /\ Calls(c)
    /\ \E d \in {x \in SampleDocuments : /\ x.uuid \in CallableUuids
                                          /\ x.pdf_url \in {BSE_PDF_URL_PAST \o a :
                                                               a \in CallableAttachments}} :
         ExecInsert(c, d, d.uuid, now)

MarkDocumentDownloaded(c) ==
    /\ Calls(c)
    /\ \E u \in CallableUuids, f \in CallablePdfNames :
         ExecDownloaded(c, DownloadedCall(u, f))

MarkDocumentParsed(c) ==
    /\ Calls(c)
    /\ \E u \in CallableUuids, f \in TextNames :
         ExecParsed(c, ParsedCall(u, f))

MarkDocumentFailed(c) ==
    /\ Calls(c)
    /\ \E u \in CallableUuids, r \in Reasons :
         ExecFailed(c, FailedCall(u, r))

\* get_conn: conn.commit() publishes the transaction and frees the lock; the
\* operation returns None
Commit(c) ==
    /\ pc[c] = "commit"
    /\ lock = c
    /\ db' = pending @@ db
    /\ observed' = [u \in Uuids |->
                      IF u \in DOMAIN pending
                      THEN observed[u] \cup {pending[u].processing_status}
                      ELSE observed[u]]
    /\ pending' = NoRows
    /\ lock' = 0
    /\ IF reg[c].active
       THEN Appended(c, op[c].uuid)
       ELSE Finish(c, op[c], Returned(<<>>))
    /\ op' = [op EXCEPT ![c] = NoOp]
    /\ UNCHANGED <<now, calls>>
    /\ UNCHANGED stageVars

\* Variant of what the database holds after a crash: the status of the rows
\* the open transaction wrote stays, their other columns are lost
RecoveredTorn(tables, rows) ==
    [u \in DOMAIN tables |->
        IF u \in DOMAIN rows
        THEN [tables[u] EXCEPT !.processing_status = rows[u].processing_status]
        ELSE tables[u]]

\* What the database holds after the process of an open transaction died:
\* conn.commit() was not reached, and sqlite3 discards what the transaction
\* wrote when the database is opened next
Recovered(tables, rows) == tables

\* What a call ends with whose process died
Killed == [type |-> "killed", value |-> <<>>]

\* The process of caller c dies between its statement and conn.commit()
Crash(c) ==
    /\ pc[c] = "commit"
    /\ lock = c
    /\ db' = Recovered(db, pending)
    /\ pending' = NoRows
    /\ lock' = 0
    /\ Finish(c, op[c], Killed)
    /\ op' = [op EXCEPT ![c] = NoOp]
    /\ UNCHANGED <<now, calls, observed>>
    /\ UNCHANGED stageVars

\* ------------------------------------------------------- the registrar
\* The PDF URL of an announcement: the archive path when older than ArchiveAge
PdfUrl(item, t) ==
    IF item.NEWS_DT[1] < t - ArchiveAge
    THEN BSE_PDF_URL_PAST \o item.ATTACHMENTNAME
    ELSE BSE_PDF_URL_CURRENT \o item.ATTACHMENTNAME

\* The dict transcripts_to_dbstate hands to insert_document
DbState(item, uuid, t) ==
    [transcript_uuid |-> uuid,
     company_name |-> item.SLONGNAME,
     script_code |-> item.SCRIP_CD,
     pdf_url |-> PdfUrl(item, t),
     pdf_url_sha256 |-> Sha256(PdfUrl(item, t)),
     announcement_date |-> item.NEWS_DT[1]]

\* transcripts_to_dbstate(transcript_list) is entered
TranscriptsToDbstate(c) ==
    /\ Caller(c)
    /\ calls' = calls + 1
    /\ \E items \in TranscriptLists :
         reg' = [reg EXCEPT ![c] = [active |-> TRUE, items |-> items, i |-> 1, ids |-> <<>>]]
    /\ pc' = [pc EXCEPT ![c] = "reg"]
    /\ finished' = Slate(c)
    /\ UNCHANGED <<db, lock, pending, op, now, observed>>
    /\ UNCHANGED stageVars

\* One turn of the loop: build the dict of the next item (a fresh uuid4) and
\* call insert_document on it; the loop over, return transcript_ids
RegisterItem(c) ==
    /\ pc[c] = "reg"
    /\ UNCHANGED calls
    /\ UNCHANGED stageVars
    /\ IF reg[c].i > Len(reg[c].items)
       THEN /\ Finish(c, NoOp, Returned(reg[c].ids))
            /\ UNCHANGED <<db, lock, pending, op, now, observed>>
       ELSE \E u \in NextUuid, t \in NowRead :
              ExecInsert(c, DbState(reg[c].items[reg[c].i], u, t), u, t)

\* ------------------------------------------------- the relevance filter
\* Text the filter inspects is a sequence of one-character strings
Uppers == <<"A", "B", "C", "D", "E", "F", "G", "H", "I", "J", "K", "L", "M",
            "N", "O", "P", "Q", "R", "S", "T", "U", "V", "W", "X", "Y", "Z">>
Lowers == <<"a", "b", "c", "d", "e", "f", "g", "h", "i", "j", "k", "l", "m",
            "n", "o", "p", "q", "r", "s", "t", "u", "v", "w", "x", "y", "z">>
Whitespace == {" ", "\t", "\n"}

\* str.lower()
StrLower(s) ==
    [i \in 1..Len(s) |->
        IF \E k \in 1..26 : Uppers[k] = s[i]
        THEN Lowers[CHOOSE k \in 1..26 : Uppers[k] = s[i]]
        ELSE s[i]]

\* str.strip(): leading and trailing whitespace removed
StrStrip(s) ==
    LET inked == {i \in 1..Len(s) : s[i] \notin Whitespace}
    IN  IF inked = {} THEN <<>>
        ELSE SubSeq(s, CHOOSE i \in inked : \A j \in inked : i <= j,
                       CHOOSE i \in inked : \A j \in inked : j <= i)

\* sub in s
StrContains(sub, s) ==
    \E i \in 1..(Len(s) - Len(sub) + 1) : SubSeq(s, i, i + Len(sub) - 1) = sub

\* s.endswith(suffix)
StrEndsWith(s, suffix) ==
    /\ Len(s) >= Len(suffix)
    /\ SubSeq(s, Len(s) - Len(suffix) + 1, Len(s)) = suffix

\* (d.get(key) or ""): a missing key, None and "" all give ""
GetOrEmpty(d, key) ==
    IF key \notin DOMAIN d THEN <<>>
    ELSE IF d[key] = Null THEN <<>>
    ELSE d[key][1]

TranscriptMarker ==
    <<"e", "a", "r", "n", "i", "n", "g", "s", " ", "c", "a", "l", "l", " ",
      "t", "r", "a", "n", "s", "c", "r", "i", "p", "t">>
PdfSuffix == <<".", "p", "d", "f">>

\* Variants of _is_transcript: the attachment name not looked at, and the
\* subject not looked at
IsTranscriptAnyAttachment(ann) ==
    StrContains(TranscriptMarker, StrLower(StrStrip(GetOrEmpty(ann, "NEWSSUB"))))

IsTranscriptAnySubject(ann) ==
    StrEndsWith(StrLower(StrStrip(GetOrEmpty(ann, "ATTACHMENTNAME"))), PdfSuffix)

\* _is_transcript(ann)
IsTranscript(ann) ==
    LET newssub == StrLower(StrStrip(GetOrEmpty(ann, "NEWSSUB")))
        attachment == StrLower(StrStrip(GetOrEmpty(ann, "ATTACHMENTNAME")))
        looks_like_transcript == StrContains(TranscriptMarker, newssub)
    IN  looks_like_transcript /\ StrEndsWith(attachment, PdfSuffix)

\* filter_transcripts_from_json(json): json.get("Table", []) gone through in
\* order, the announcements that pass appended
FilterTranscriptsFromJson(json) ==
    LET all_announcements == IF "Table" \in DOMAIN json THEN json.Table ELSE <<>>
    IN  SelectSeq(all_announcements, IsTranscript)

\* Upper case, to write the inputs
StrUpper(s) ==
    [i \in 1..Len(s) |->
        IF \E k \in 1..26 : Lowers[k] = s[i]
        THEN Uppers[CHOOSE k \in 1..26 : Lowers[k] = s[i]]
        ELSE s[i]]

\* Subjects of announcements: none, the marker in lower, upper and mixed case,
\* the marker inside a padded sentence, another subject, the marker cut short
SubjectValues ==
    {Null,
     Some(TranscriptMarker),
     Some(StrUpper(TranscriptMarker)),
     Some(<<" ", "Q", "3", " ", "E">> \o Tail(TranscriptMarker) \o <<" ", "-", " ">>),
     Some(<<"b", "o", "a", "r", "d", " ", "m", "e", "e", "t", "i", "n", "g">>),
     Some(SubSeq(TranscriptMarker, 1, Len(TranscriptMarker) - 1))}

\* Attachment names: none, a PDF in lower and upper case, one followed by a
\* blank, one after blanks, another extension, the extension without its dot
AttachmentValues ==
    {Null,
     Some(<<"a", ".", "p", "d", "f">>),
     Some(<<"A", ".", "P", "D", "F">>),
     Some(<<"a", ".", "p", "d", "f", " ">>),
     Some(<<"a", ".", "t", "x", "t">>),
     Some(<<"a", "p", "d", "f">>)}

\* Announcements of the feed: every subject with a PDF attached, every
\* attachment under the marker, one that fails both tests, and announcements
\* with either field or both missing
Announcements ==
    { [NEWSSUB |-> s, ATTACHMENTNAME |-> Some(<<"a", ".", "p", "d", "f">>)] :
        s \in SubjectValues }
    \cup { [NEWSSUB |-> Some(TranscriptMarker), ATTACHMENTNAME |-> a] :
        a \in AttachmentValues }
    \cup { [NEWSSUB |-> Some(<<"b", "o", "a", "r", "d", " ", "m", "e", "e", "t", "i", "n", "g">>),
            ATTACHMENTNAME |-> Some(<<"a", ".", "t", "x", "t">>)],
           [NEWSSUB |-> Some(TranscriptMarker)],
           [ATTACHMENTNAME |-> Some(<<"a", ".", "p", "d", "f">>)],
           [SLONGNAME |-> Some(<<"X">>)] }

\* Pages of the feed as the filter is handed them, with and without "Table"
FilterPages ==
    { [Table1 |-> <<[ROWCNT |-> 0]>>] }
    \cup { [Table |-> t, Table1 |-> <<[ROWCNT |-> Len(t)]>>] :
             t \in SeqsUpTo(Announcements, MaxAnnouncements) }

\* filter_transcripts_from_json(json) is called, and returns
FilterReturn ==
    /\ flt.pc = "called"
    /\ flt' = [flt EXCEPT !.pc = "returned",
                          !.result = FilterTranscriptsFromJson(flt.json)]
    /\ UNCHANGED <<disc, dl, cv, main>>
    /\ UNCHANGED storeVars

\* ------------------------------------------------------------- discovery
\* What the feed answers: announcement i of page p, a page of n announcements
\* reporting rows rows in all.  On a page every announcement is a transcript
\* but the second one of an odd page.  Page 1 comes in every size; the later
\* pages hold FeedPageSize announcements.
FeedPageSize == 2

FeedItem(p, i) ==
    [NEWSID |-> <<p, i>>,
     NEWSSUB |-> IF p % 2 = 1 /\ i = 2
                 THEN Some(<<"b", "o", "a", "r", "d">>)
                 ELSE Some(StrUpper(TranscriptMarker)),
     ATTACHMENTNAME |-> Some(<<"a", ".", "p", "d", "f">>)]

FeedPage(p, n, rows) ==
    [Table |-> [i \in 1..n |-> FeedItem(p, i)], Table1 |-> <<[ROWCNT |-> rows]>>]

\* What a failed fetch raises out of _fetch_page: a timeout, a transport
\* error, an HTTP error status (raise_for_status), a body that is not JSON
FetchErrors ==
    {"TimeoutError", "ClientConnectionError", "ClientResponseError", "ContentTypeError"}

\* What the fetch of a later page raises: a timeout, or an exception that is
\* no timeout (the except clauses of fetch_and_filter tell no more apart)
PageErrors == {"TimeoutError", "ClientResponseError"}

\* The answers to the request for page 1
Page1Responses ==
    { Returned(FeedPage(1, n, rows)) : n \in 0..MaxPageSize, rows \in 0..MaxRows }
    \cup { Raised(e, "page 1") : e \in FetchErrors }

\* math.ceil(a / b) for a >= 0 and b > 0
Ceil(a, b) == (a + b - 1) \div b

\* page_size, total_rows and total_pages as create_transcript_list computes
\* them from page 1: the division raises when the page holds no announcement
TotalPages(json_page_1) ==
    LET page_size == IF "Table" \in DOMAIN json_page_1 THEN Len(json_page_1.Table) ELSE 0
        total_rows == json_page_1.Table1[1].ROWCNT
    IN  IF page_size = 0
        THEN Raised("ZeroDivisionError", "division by zero")
        ELSE Returned(IF Ceil(total_rows, page_size) > 1
                      THEN Ceil(total_rows, page_size) ELSE 1)

\* What fetch_and_filter(p) ends with, given what _fetch_page ended with: a
\* page is filtered; a timeout is caught by the first except clause; any
\* other exception reaches the clause "except aiohttp.ClientTimeout", whose
\* class is no exception class, and matching against it raises TypeError
FetchAndFilter(response) ==
    IF response.type = "return" THEN Returned(FilterTranscriptsFromJson(response.value))
    ELSE IF response.type = "TimeoutError" THEN Returned(<<>>)
    ELSE Raised("TypeError",
                "catching classes that do not inherit from BaseException is not allowed")

\* The pages create_transcript_list gathers, and those of a given task state
Pages(d) == 2..d.total_pages
PagesIn(d, states) == {p \in Pages(d) : d.task[p] \in states}

\* A variant of the order below: the pages as their fetches completed
GatherOrderAsCompleted(d) == d.completed

\* The order in which the results of gather are gone through: that of its
\* arguments, range(2, total_pages + 1)
GatherOrder(d) == [i \in 1..(d.total_pages - 1) |-> i + 1]

\* transcript_list after the loop over the gathered pages, from position i
RECURSIVE Extended(_, _, _, _)
Extended(list, results, order, i) ==
    IF i > Len(order) THEN list
    ELSE Extended(list \o results[order[i]].value, results, order, i + 1)

\* create_transcript_list(prev_date, to_date) is entered: the session is
\* opened and page 1 requested
DiscoveryEntered ==
    [pc |-> "page1", limit_per_host |-> MAX_CONCURRENT_JSON_REQUESTS,
     page1 |-> Null, transcript_list |-> <<>>, total_pages |-> 0, sem |-> 0,
     task |-> <<>>, fetched |-> <<>>, results |-> <<>>, issued |-> <<>>,
     completed |-> <<>>, outcome |-> Null]

\* The call ends
DiscoveryEnds(d, result) == [d EXCEPT !.pc = "done", !.outcome = Some(result)]

\* The answer to page 1 arrives: its exception leaves the call; its
\* announcements are filtered, the page count computed, and either the list
\* returned (one page) or the tasks of the other pages handed to gather
FetchPage1 ==
    /\ disc.pc = "page1"
    /\ \E response \in Page1Responses :
         LET d == [disc EXCEPT !.page1 = Some(response)]
         IN  IF response.type # "return"
             THEN disc' = DiscoveryEnds(d, response)
             ELSE LET list == FilterTranscriptsFromJson(response.value)
                      total == TotalPages(response.value)
                      e == [d EXCEPT !.transcript_list = list]
                  IN  IF total.type # "return"
                      THEN disc' = DiscoveryEnds(e, total)
                      ELSE IF total.value = 1
                           THEN disc' = DiscoveryEnds([e EXCEPT !.total_pages = 1],
                                                      Returned(list))
                           ELSE disc' =
                                     [e EXCEPT !.pc = "gather",
                                               !.total_pages = total.value,
                                               !.sem = MAX_CONCURRENT_JSON_REQUESTS,
                                               !.task = [p \in 2..total.value |-> "waiting"],
                                               !.fetched = [p \in 2..total.value |-> "none"],
                                               !.results = [p \in 2..total.value |-> Null],
                                               !.issued = [p \in 2..total.value |-> 0]]
    /\ UNCHANGED <<flt, dl, cv, main>>
    /\ UNCHANGED storeVars

\* A task waits for a permit while there is one.  The tasks gather creates are
\* ready at once, and a task woken by a release is ready before the callback
\* of any answer that arrives later: the event loop runs them first.
PermitWaited(d) == d.sem > 0 /\ PagesIn(d, {"waiting"}) # {}

\* async with sem: the task of page p takes a permit and requests its page
AcquirePage(p) ==
    /\ disc.pc = "gather"
    /\ p \in Pages(disc)
    /\ disc.task[p] = "waiting"
    /\ disc.sem > 0
    /\ disc' = [disc EXCEPT !.sem = @ - 1, !.task[p] = "fetching", !.issued[p] = @ + 1]
    /\ UNCHANGED <<flt, dl, cv, main>>
    /\ UNCHANGED storeVars

\* The answer to page p arrives: fetch_and_filter(p) returns or raises, and
\* leaving "async with sem" gives the permit back
CompletePage(p) ==
    /\ disc.pc = "gather"
    /\ p \in Pages(disc)
    /\ disc.task[p] = "fetching"
    /\ ~PermitWaited(disc)
    /\ \E response \in {Returned(FeedPage(p, FeedPageSize, 0))}
                       \cup {Raised(e, "page") : e \in PageErrors} :
         LET result == FetchAndFilter(response)
         IN  disc' = [disc EXCEPT
                        !.sem = @ + 1,
                        !.task[p] = IF result.type = "return" THEN "returned" ELSE "raised",
                        !.fetched[p] = response.type,
                        !.results[p] = result,
                        !.completed = Append(@, p)]
    /\ UNCHANGED <<flt, dl, cv, main>>
    /\ UNCHANGED storeVars

\* Every task has returned: gather returns their results, the loop extends
\* transcript_list with them and the list is returned
GatherReturns ==
    /\ disc.pc = "gather"
    /\ PagesIn(disc, {"returned"}) = Pages(disc)
    /\ LET list == Extended(disc.transcript_list, disc.results, GatherOrder(disc), 1)
       IN  disc' = DiscoveryEnds([disc EXCEPT !.transcript_list = list], Returned(list))
    /\ UNCHANGED <<flt, dl, cv, main>>
    /\ UNCHANGED storeVars

\* A task has raised: gather raises its exception into create_transcript_list,
\* which leaves; asyncio.run (main.py) cancels the tasks still running, and a
\* task cancelled inside "async with sem" gives its permit back
GatherRaises ==
    /\ disc.pc = "gather"
    /\ ~PermitWaited(disc)
    /\ \E p \in PagesIn(disc, {"raised"}) :
         /\ \A q \in PagesIn(disc, {"raised"}) :
              \E i, j \in 1..Len(disc.completed) :
                  disc.completed[i] = p /\ disc.completed[j] = q /\ i <= j
         /\ disc' = DiscoveryEnds(
                [disc EXCEPT
                   !.sem = @ + Cardinality(PagesIn(disc, {"fetching"})),
                   !.task = [q \in Pages(disc) |->
                               IF disc.task[q] \in {"waiting", "fetching"}
                               THEN "cancelled" ELSE disc.task[q]]],
                disc.results[p])
    /\ UNCHANGED <<flt, dl, cv, main>>
    /\ UNCHANGED storeVars

\* -------------------------------------------------------------- download
\* get_pdf_path(transcript_uuid).name
PdfFileName(uuid) == uuid \o ".pdf"

\* get_pdf_url(transcript_uuid): the pdf_url of the stored row, None without one
GetPdfUrl(tables, uuid) ==
    IF uuid \in DOMAIN tables THEN Some(tables[uuid].pdf_url) ELSE Null

\* What a fetch that has sent its request fails with before the body: no
\* connection, no answer in time, an error status at raise_for_status, no
\* file to open
RequestErrors ==
    {[type |-> "ClientConnectorError", value |-> "Cannot connect to host"],
     [type |-> "TimeoutError", value |-> ""],
     [type |-> "ClientResponseError", value |-> "404, message='Not Found'"],
     [type |-> "OSError", value |-> "[Errno 2] No such file or directory"]}

\* What a fetch fails with while its body is written: the connection lost,
\* the disk full
BodyErrors ==
    {[type |-> "ClientPayloadError", value |-> "Response payload is not completed"],
     [type |-> "OSError", value |-> "[Errno 28] No space left on device"]}

\* if not url: raise ValueError(...)
UrlNotSet(uuid) == Raised("ValueError", "PDF URL is not set for transcript " \o uuid)

\* Variant of the except clause of fetch_pdf_wrapper that lets timeouts pass
CaughtUnlessTimeout(exc) == exc.type # "TimeoutError"

\* except Exception: every exception a fetch or the store raises is caught
Caught(exc) == TRUE

\* str(e), the reason handed to mark_document_failed
Str(exc) == exc.value

\* Variant of the point where fetch_pdf returns: once the file is open
FetchReturnedEarly(state) == state \in {"writing", "fetched"}

\* await fetch_pdf(...) has returned: the body was written and the file closed
FetchReturned(state) == state = "fetched"

\* Variant of leaving "async with sem" that keeps the permit
NotReleased(sem) == sem

\* Leaving "async with sem" gives the permit back
Released(sem) == sem + 1

\* mark_document_downloaded(uuid, pdf_file_name) on the table: the table it
\* leaves and what the call ends with
StoreDownloaded(tables, uuid, pdf_file_name, ts) ==
    IF uuid \in DOMAIN tables /\ DownloadedWhere(tables[uuid])
    THEN [db |-> [tables EXCEPT
                    ![uuid] = DownloadedSet(tables[uuid], pdf_file_name, ts[1], ts[2])],
          result |-> Returned(Null)]
    ELSE [db |-> tables, result |-> TransitionError(tables, uuid, "discovered")]

\* Variant of mark_document_failed that is guarded like the other
\* transitions: it updates a 'downloaded' row only
StoreFailedFromDownloaded(tables, uuid, error_message, t) ==
    IF uuid \in DOMAIN tables /\ tables[uuid].processing_status = "downloaded"
    THEN [tables EXCEPT ![uuid] = FailedSet(tables[uuid], error_message, t)]
    ELSE tables

\* mark_document_failed(uuid, error_message) on the table
StoreFailed(tables, uuid, error_message, t) ==
    IF uuid \in DOMAIN tables
    THEN [tables EXCEPT ![uuid] = FailedSet(tables[uuid], error_message, t)]
    ELSE tables

\* The statuses seen once the table has become tables
Observing(tables) ==
    [u \in Uuids |->
        IF u \in DOMAIN tables
        THEN observed[u] \cup {tables[u].processing_status} ELSE observed[u]]

\* The tasks of a given state, and the downloads past the semaphore
TasksIn(d, states) == {u \in d.uuids : d.task[u] \in states}
InFlight(d) == TasksIn(d, {"requesting", "writing", "fetched"})

\* download_pdfs(transcript_uuids) is entered: connector, semaphore and
\* session are made, the URLs looked up, and the tasks handed to gather
DownloadEntered(tables, uuids) ==
    [pc |-> "gather", limit_per_host |-> MAX_CONCURRENT_PDF_REQUESTS,
     sem |-> MAX_CONCURRENT_PDF_REQUESTS, uuids |-> uuids,
     url |-> [u \in uuids |-> GetPdfUrl(tables, u)],
     task |-> [u \in uuids |-> "waiting"],
     fetch |-> [u \in uuids |-> Null],
     marks |-> [u \in uuids |-> <<>>],
     files |-> <<>>, outcome |-> Null]

\* The except clause of fetch_pdf_wrapper for the task of uuid, in frame d
\* (its permit not yet given back): a caught exception is handed to
\* mark_document_failed and the task ends; any other leaves the task, and
\* gather raises it out of download_pdfs
Handle(d, uuid, exc, t) ==
    /\ now' = t
    /\ IF Caught(exc)
       THEN /\ db' = StoreFailed(db, uuid, Str(exc), t)
            /\ observed' = Observing(StoreFailed(db, uuid, Str(exc), t))
            /\ dl' = [d EXCEPT !.task[uuid] = "done",
                               !.marks[uuid] = Append(@, <<"failed", Str(exc)>>)]
       ELSE /\ UNCHANGED <<db, observed>>
            /\ dl' = [d EXCEPT !.task = [u \in d.uuids |->
                                           IF u = uuid THEN "raised"
                                           ELSE IF d.task[u] = "done" THEN "done"
                                           ELSE "cancelled"],
                               !.pc = "done", !.outcome = Some(exc)]
    /\ UNCHANGED <<lock, pending, pc, op, reg, finished, calls, flt, disc, cv, main>>

\* A task waits for a permit while there is one (the event loop runs the
\* ready tasks before it looks at the network)
PermitWaitedPdf(d) == d.sem > 0 /\ TasksIn(d, {"waiting"}) # {}

\* async with sem: the task of uuid takes a permit and calls fetch_pdf, which
\* raises when the URL is not set and sends the request otherwise
AcquirePdf(uuid) ==
    /\ dl.pc = "gather"
    /\ uuid \in dl.uuids
    /\ dl.task[uuid] = "waiting"
    /\ dl.sem > 0
    /\ IF dl.url[uuid] = Null \/ dl.url[uuid] = Some("")
       THEN \E t \in NowRead :
              Handle([dl EXCEPT !.fetch[uuid] = Some(UrlNotSet(uuid))],
                     uuid, UrlNotSet(uuid), t)
       ELSE /\ dl' = [dl EXCEPT !.sem = @ - 1, !.task[uuid] = "requesting"]
            /\ UNCHANGED storeVars
            /\ UNCHANGED <<flt, disc, cv, main>>

\* The answer arrives with a success status and the file is opened for
\* writing, which creates it, or empties the one there is
OpenPdf(uuid) ==
    /\ dl.pc = "gather"
    /\ uuid \in dl.uuids
    /\ dl.task[uuid] = "requesting"
    /\ ~PermitWaitedPdf(dl)
    /\ dl' = [dl EXCEPT !.task[uuid] = "writing",
                        !.files = (PdfFileName(uuid) :> [chunks |-> 0, closed |-> FALSE]) @@ @]
    /\ UNCHANGED storeVars
    /\ UNCHANGED <<flt, disc, cv, main>>

\* A chunk of the body arrives and is written
WriteChunk(uuid) ==
    /\ dl.pc = "gather"
    /\ uuid \in dl.uuids
    /\ dl.task[uuid] = "writing"
    /\ ~PermitWaitedPdf(dl)
    /\ dl.files[PdfFileName(uuid)].chunks < MaxChunks
    /\ dl' = [dl EXCEPT !.files[PdfFileName(uuid)].chunks = @ + 1]
    /\ UNCHANGED storeVars
    /\ UNCHANGED <<flt, disc, cv, main>>

\* The body ends: the file is closed and fetch_pdf returns
EndOfBody(uuid) ==
    /\ dl.pc = "gather"
    /\ uuid \in dl.uuids
    /\ dl.task[uuid] = "writing"
    /\ ~PermitWaitedPdf(dl)
    /\ dl' = [dl EXCEPT !.task[uuid] = "fetched",
                        !.fetch[uuid] = Some(Returned(Null)),
                        !.files[PdfFileName(uuid)].closed = TRUE]
    /\ UNCHANGED storeVars
    /\ UNCHANGED <<flt, disc, cv, main>>

\* fetch_pdf has returned: mark_document_downloaded is called with the name of
\* the file; what it raises goes to the except clause; the permit is given back
MarkFetched(uuid) ==
    /\ dl.pc = "gather"
    /\ uuid \in dl.uuids
    /\ dl.task[uuid] \in {"writing", "fetched"}
    /\ FetchReturned(dl.task[uuid])
    /\ \E ts \in NowReads :
         LET call == StoreDownloaded(db, uuid, PdfFileName(uuid), ts)
             d == [dl EXCEPT !.sem = Released(@),
                             !.marks[uuid] = Append(@, <<"downloaded", PdfFileName(uuid)>>)]
         IN  IF call.result.type = "return"
             THEN /\ db' = call.db
                  /\ observed' = Observing(call.db)
                  /\ now' = ts[2]
                  /\ dl' = [d EXCEPT !.task[uuid] = "done"]
                  /\ UNCHANGED <<lock, pending, pc, op, reg, finished, calls, flt, disc, cv, main>>
             ELSE Handle(d, uuid, [type |-> call.result.type, value |-> call.result.value],
                         ts[2])

\* The fetch of uuid fails after its request was sent: the exception goes to
\* the except clause, and the permit is given back
FetchFails(uuid) ==
    /\ dl.pc = "gather"
    /\ uuid \in dl.uuids
    /\ dl.task[uuid] \in {"requesting", "writing"}
    /\ ~PermitWaitedPdf(dl)
    /\ \E exc \in IF dl.task[uuid] = "requesting" THEN RequestErrors ELSE BodyErrors,
          t \in NowRead :
         Handle([dl EXCEPT !.sem = Released(@), !.fetch[uuid] = Some(exc)], uuid, exc, t)

\* Every task has ended: gather returns, the session is closed and
\* download_pdfs returns
DownloadReturns ==
    /\ dl.pc = "gather"
    /\ TasksIn(dl, {"done"}) = dl.uuids
    /\ dl' = [dl EXCEPT !.pc = "done", !.outcome = Some(Returned(Null))]
    /\ UNCHANGED storeVars
    /\ UNCHANGED <<flt, disc, cv, main>>

\* ------------------------------------------------------------ conversion
\* The processes that run the conversion stage at the same time
Runs == {"first", "second"}

\* text_file_name = f"{transcript_uuid}.txt"
TextFileName(uuid) == uuid \o ".txt"

\* Variant of the staging name that is the same for every document
TempTextFileNameShared(uuid) == "temp.txt"

\* temp_text_file_name = f"temp_{transcript_uuid}.txt"
TempTextFileName(uuid) == "temp_" \o uuid \o ".txt"

\* A PDF as PdfReader finds it: whether PdfReader(pdf_file) parses it, whether
\* reader.pages can be listed (it cannot while the file is encrypted), its
\* pages, the pages whose extract_text() raises, and the pages whose text
\* write() raises on (text that utf-8 cannot encode)
PdfContents ==
    {[parses |-> FALSE, listed |-> FALSE, pages |-> 0, bad |-> {}, unwritable |-> {}],
     [parses |-> TRUE, listed |-> FALSE, pages |-> 0, bad |-> {}, unwritable |-> {}]}
    \cup {c \in [parses : {TRUE}, listed : {TRUE}, pages : {MaxPdfPages},
                 bad : SUBSET (1..MaxPdfPages), unwritable : SUBSET (1..1)] :
            c.bad \cap c.unwritable = {}}

\* A PDF every page of which is extracted and written
PlainPdf ==
    [parses |-> TRUE, listed |-> TRUE, pages |-> MaxPdfPages, bad |-> {}, unwritable |-> {}]

\* What write() raises on such a text
WriteError == Raised("UnicodeEncodeError", "'utf-8' codec can't encode character")

\* The ids of S as a list, in the order of UuidSeq
RECURSIVE Listed(_, _)
Listed(S, k) ==
    IF k > MaxDocs THEN <<>>
    ELSE (IF UuidOf(k) \in S THEN <<UuidOf(k)>> ELSE <<>>) \o Listed(S, k + 1)

\* get_downloaded_documents(): the ids of the rows in status 'downloaded'
GetDownloadedDocuments(tables) ==
    Listed({u \in DOMAIN tables : tables[u].processing_status = "downloaded"}, 1)

\* mark_document_parsed(uuid, text_file_name) on the table: the table it
\* leaves and what the call ends with
StoreParsed(tables, uuid, text_file_name, ts) ==
    IF uuid \in DOMAIN tables /\ ParsedWhere(tables[uuid])
    THEN [db |-> [tables EXCEPT
                    ![uuid] = ParsedSet(tables[uuid], text_file_name, ts[1], ts[2])],
          result |-> Returned(Null)]
    ELSE [db |-> tables, result |-> TransitionError(tables, uuid, "downloaded")]

\* What PdfReader raises on a file that is no PDF
PdfReadError == Raised("PdfReadError", "EOF marker not found")

\* What reader.pages raises on an encrypted file
FileNotDecryptedError == Raised("FileNotDecryptedError", "File has not been decrypted")

\* What os.replace and unlink raise on a name that is not there
NoSuchFile(name) ==
    Raised("FileNotFoundError", "[Errno 2] No such file or directory: " \o name)

\* What unlink raises on a file that may not be deleted
UnlinkErrors(name) ==
    {Raised("PermissionError", "[Errno 13] Permission denied: " \o name)}

\* Variant of the mode of the staging file: 'a', which keeps what is there
OpenedForAppending(content) == content

\* open(temp_text_path, 'w'): the file is emptied, and the handle starts at
\* its end
OpenedForWriting(content) == <<>>

\* Variant of os.replace that leaves the directory as it is
OsReplaceNothing(dir, src, dst) == dir

\* os.replace(src, dst) on a directory (names to files) that holds src: dst
\* names the file src named, whatever dst named before, and src is gone
OsReplace(dir, src, dst) ==
    [n \in (DOMAIN dir \ {src}) \cup {dst} |-> IF n = dst THEN dir[src] ELSE dir[n]]

\* Variant of the page loop without its try: a page that raises ends the loop
PageRaises(page_num) == Some(Raised("Exception", "page extraction failed"))

\* except Exception inside the page loop: print, continue
PageSkipped(page_num) == Null

\* temp_text_file.write(text_content) at the offset of the handle: the text of
\* a page takes one place of the file, 0 stands for a gap never written
WriteAt(content, off, page_num) ==
    IF off < Len(content) THEN [content EXCEPT ![off + 1] = page_num]
    ELSE content \o [k \in 1..(off - Len(content)) |-> 0] \o <<page_num>>

\* convert_pdfs counts the results, prints the counts and ends without a
\* return statement
ConvertPdfsReturns(results) == Returned(Null)

\* The frame of one call of convert_pdf_to_text(uuid) in a worker
TaskQueued(uuid) ==
    [uuid |-> uuid, pc |-> "queued", doc |-> Null, pdf_file_name |-> Null, pages |-> 0,
     bad |-> {}, unwritable |-> {}, page |-> 1, skipped |-> {}, dropped |-> {}, fd |-> Null, off |-> 0, marks |-> <<>>,
     exc |-> Null, unlink |-> Null, result |-> Null]

\* A process that has not entered the stage, and one that never will
RunIdle == [pc |-> "idle", entry |-> "", docs |-> <<>>, processes |-> 0,
            task |-> <<>>, outcome |-> Null]
RunOff == [RunIdle EXCEPT !.pc = "off"]

\* The workers of run r that hold a process of its pool
Busy(run) == {i \in DOMAIN run.task : run.task[i].pc \notin {"queued", "done"}}

\* mark_document_failed(uuid, message) and return False, for task i of run r
\* in frame c; exc is the exception caught at the top level, Null when the
\* function reports a failure it found itself
Failed(c, r, i, message, exc, t) ==
    LET uuid == c.run[r].task[i].uuid
    IN  /\ now' = t
        /\ db' = StoreFailed(db, uuid, message, t)
        /\ observed' = Observing(StoreFailed(db, uuid, message, t))
        /\ cv' = [c EXCEPT !.run[r].task[i].pc = "done",
                           !.run[r].task[i].fd = Null,
                           !.run[r].task[i].exc = exc,
                           !.run[r].task[i].marks = Append(@, <<"failed", message>>),
                           !.run[r].task[i].result = Some(FALSE)]
        /\ UNCHANGED <<lock, pending, pc, op, reg, finished, calls, flt, disc, dl, main>>

\* convert_pdfs() is entered by process r: the downloaded documents are
\* selected; without any it returns, else the pool is made and map hands
\* every document to a worker
ConvertPdfs(r) ==
    /\ cv.pc = "run"
    /\ cv.run[r].pc = "idle"
    /\ LET downloaded_documents == GetDownloadedDocuments(db)
       IN  IF downloaded_documents = <<>>
           THEN cv' = [cv EXCEPT !.run[r] =
                         [RunIdle EXCEPT !.pc = "done", !.entry = "convert_pdfs",
                                         !.outcome = Some(Returned(Null))]]
           ELSE cv' = [cv EXCEPT !.run[r] =
                         [pc |-> "map", entry |-> "convert_pdfs",
                          docs |-> downloaded_documents,
                          processes |-> IF MAX_CONCURRENT_CONVERSION_WORKERS
                                             < Len(downloaded_documents)
                                        THEN MAX_CONCURRENT_CONVERSION_WORKERS
                                        ELSE Len(downloaded_documents),
                          task |-> [i \in 1..Len(downloaded_documents) |->
                                      TaskQueued(downloaded_documents[i])],
                          outcome |-> Null]]
    /\ UNCHANGED storeVars
    /\ UNCHANGED <<flt, disc, dl, main>>

\* convert_pdf_to_text(uuid) is called by process r itself
ConvertPdfToText(r, uuid) ==
    /\ cv.pc = "run"
    /\ cv.run[r].pc = "idle"
    /\ cv' = [cv EXCEPT !.run[r] =
                [pc |-> "map", entry |-> "convert_pdf_to_text", docs |-> <<uuid>>,
                 processes |-> 1, task |-> <<TaskQueued(uuid)>>, outcome |-> Null]]
    /\ UNCHANGED storeVars
    /\ UNCHANGED <<flt, disc, dl, main>>

\* A worker takes document i of run r and fetches its row: without a row, or
\* without a PDF file name in it, the function returns False
GetDocument(r, i) ==
    /\ cv.pc = "run"
    /\ cv.run[r].pc = "map"
    /\ i \in DOMAIN cv.run[r].task
    /\ cv.run[r].task[i].pc = "queued"
    /\ Cardinality(Busy(cv.run[r])) < cv.run[r].processes
    /\ LET uuid == cv.run[r].task[i].uuid
           doc == IF uuid \in DOMAIN db THEN Some(db[uuid]) ELSE Null
       IN  IF doc = Null \/ doc[1].pdf_file_name \in {Null, Some("")}
           THEN cv' = [cv EXCEPT !.run[r].task[i].pc = "done",
                                 !.run[r].task[i].doc = doc,
                                 !.run[r].task[i].result = Some(FALSE)]
           ELSE cv' = [cv EXCEPT !.run[r].task[i].pc = "fetched",
                                 !.run[r].task[i].doc = doc,
                                 !.run[r].task[i].pdf_file_name = doc[1].pdf_file_name]
    /\ UNCHANGED storeVars
    /\ UNCHANGED <<flt, disc, dl, main>>

\* The PDF is looked for: when it is not there the document is marked failed;
\* else it is opened and read, which raises when it does not parse, and the
\* staging file is opened for writing, which creates it or empties the one
\* there is; then the pages are listed for the loop, which raises, outside
\* the try of the loop, when they cannot be
OpenFiles(r, i) ==
    /\ cv.pc = "run"
    /\ cv.run[r].pc = "map"
    /\ i \in DOMAIN cv.run[r].task
    /\ cv.run[r].task[i].pc = "fetched"
    /\ LET task == cv.run[r].task[i]
           pdf_file_name == task.pdf_file_name[1]
           temp_text_file_name == TempTextFileName(task.uuid)
           inode == IF temp_text_file_name \in DOMAIN cv.text
                    THEN cv.text[temp_text_file_name] ELSE <<r, i>>
           opened == OpenedForWriting(IF inode \in DOMAIN cv.inode
                                      THEN cv.inode[inode] ELSE <<>>)
       IN  IF pdf_file_name \notin DOMAIN cv.pdfs
           THEN \E t \in NowRead :
                  Failed(cv, r, i, "PDF file not found: " \o pdf_file_name, Null, t)
           ELSE IF ~cv.pdfs[pdf_file_name].parses
           THEN \E t \in NowRead :
                  Failed(cv, r, i, Str(PdfReadError), Some(PdfReadError), t)
           ELSE IF ~cv.pdfs[pdf_file_name].listed
           THEN \E t \in NowRead :
                  Failed([cv EXCEPT !.text = (temp_text_file_name :> inode) @@ @,
                                    !.inode = (inode :> opened) @@ @],
                         r, i, Str(FileNotDecryptedError), Some(FileNotDecryptedError), t)
           ELSE /\ cv' = [cv EXCEPT
                            !.text = (temp_text_file_name :> inode) @@ @,
                            !.inode = (inode :> opened) @@ @,
                            !.run[r].task[i].off = Len(opened),
                            !.run[r].task[i].pc = "pages",
                            !.run[r].task[i].pages = cv.pdfs[pdf_file_name].pages,
                            !.run[r].task[i].bad = cv.pdfs[pdf_file_name].bad,
                            !.run[r].task[i].unwritable = cv.pdfs[pdf_file_name].unwritable,
                            !.run[r].task[i].fd = Some(inode)]
                /\ UNCHANGED storeVars
                /\ UNCHANGED <<flt, disc, dl, main>>

\* The next page is extracted and its text written to the staging file; a
\* page whose extraction raises is skipped, and so is a page whose text
\* write() raises on (both are inside the try of the loop)
ExtractPage(r, i) ==
    /\ cv.pc = "run"
    /\ cv.run[r].pc = "map"
    /\ i \in DOMAIN cv.run[r].task
    /\ cv.run[r].task[i].pc = "pages"
    /\ cv.run[r].task[i].page <= cv.run[r].task[i].pages
    /\ LET task == cv.run[r].task[i]
           page_num == task.page
           inode == task.fd[1]
       IN  IF page_num \in task.bad
           THEN IF PageSkipped(page_num) = Null
                THEN /\ cv' = [cv EXCEPT !.run[r].task[i].page = @ + 1,
                                         !.run[r].task[i].skipped = @ \cup {page_num}]
                     /\ UNCHANGED storeVars
                     /\ UNCHANGED <<flt, disc, dl, main>>
                ELSE \E t \in NowRead :
                       Failed(cv, r, i, Str(PageSkipped(page_num)[1]),
                              PageSkipped(page_num), t)
           ELSE IF page_num \in task.unwritable
           THEN /\ cv' = [cv EXCEPT !.run[r].task[i].page = @ + 1,
                                    !.run[r].task[i].dropped = @ \cup {page_num}]
                /\ UNCHANGED storeVars
                /\ UNCHANGED <<flt, disc, dl, main>>
           ELSE /\ cv' = [cv EXCEPT
                            !.inode[inode] = WriteAt(@, task.off, page_num),
                            !.run[r].task[i].off = @ + 1,
                            !.run[r].task[i].page = @ + 1]
                /\ UNCHANGED storeVars
                /\ UNCHANGED <<flt, disc, dl, main>>

\* The pages are done: both files are closed and the staging file is renamed
\* to the final name, which raises when the staging file is not there
Replace(r, i) ==
    /\ cv.pc = "run"
    /\ cv.run[r].pc = "map"
    /\ i \in DOMAIN cv.run[r].task
    /\ cv.run[r].task[i].pc = "pages"
    /\ cv.run[r].task[i].page > cv.run[r].task[i].pages
    /\ LET task == cv.run[r].task[i]
           text_file_name == TextFileName(task.uuid)
           temp_text_file_name == TempTextFileName(task.uuid)
       IN  IF temp_text_file_name \notin DOMAIN cv.text
           THEN \E t \in NowRead :
                  Failed(cv, r, i, Str(NoSuchFile(temp_text_file_name)),
                         Some(NoSuchFile(temp_text_file_name)), t)
           ELSE /\ cv' = [cv EXCEPT
                            !.text = OsReplace(@, temp_text_file_name, text_file_name),
                            !.run[r].task[i].pc = "replaced",
                            !.run[r].task[i].fd = Null]
                /\ UNCHANGED storeVars
                /\ UNCHANGED <<flt, disc, dl, main>>

\* mark_document_parsed(transcript_uuid, text_file_name); what it raises is
\* caught at the top level
MarkParsed(r, i) ==
    /\ cv.pc = "run"
    /\ cv.run[r].pc = "map"
    /\ i \in DOMAIN cv.run[r].task
    /\ cv.run[r].task[i].pc = "replaced"
    /\ \E ts \in NowReads :
         LET uuid == cv.run[r].task[i].uuid
             call == StoreParsed(db, uuid, TextFileName(uuid), ts)
             c == [cv EXCEPT !.run[r].task[i].marks =
                               Append(@, <<"parsed", TextFileName(uuid)>>)]
         IN  IF call.result.type = "return"
             THEN /\ db' = call.db
                  /\ observed' = Observing(call.db)
                  /\ now' = ts[2]
                  /\ cv' = [c EXCEPT !.run[r].task[i].pc = "parsed"]
                  /\ UNCHANGED <<lock, pending, pc, op, reg, finished, calls,
                                 flt, disc, dl, main>>
             ELSE Failed(c, r, i, Str(call.result),
                         Some([type |-> call.result.type, value |-> call.result.value]),
                         ts[2])

\* Variant of the try around unlink that lets the exception pass to the top
\* level
UnlinkEscapes(exc) == FALSE

\* try: pdf_path.unlink() / except Exception: print
UnlinkCaught(exc) == TRUE

\* pdf_path.unlink(): the PDF is deleted, or the deletion raises, which is
\* printed; either way the function returns True
Unlink(r, i) ==
    /\ cv.pc = "run"
    /\ cv.run[r].pc = "map"
    /\ i \in DOMAIN cv.run[r].task
    /\ cv.run[r].task[i].pc = "parsed"
    /\ LET pdf_file_name == cv.run[r].task[i].pdf_file_name[1]
       IN  \/ /\ pdf_file_name \in DOMAIN cv.pdfs
              /\ cv' = [cv EXCEPT
                          !.pdfs = [n \in DOMAIN @ \ {pdf_file_name} |-> @[n]],
                          !.run[r].task[i].pc = "done",
                          !.run[r].task[i].unlink = Some(Returned(Null)),
                          !.run[r].task[i].result = Some(TRUE)]
              /\ UNCHANGED storeVars
              /\ UNCHANGED <<flt, disc, dl, main>>
           \/ \E exc \in IF pdf_file_name \in DOMAIN cv.pdfs
                         THEN UnlinkErrors(pdf_file_name)
                         ELSE {NoSuchFile(pdf_file_name)} :
                IF UnlinkCaught(exc)
                THEN /\ cv' = [cv EXCEPT !.run[r].task[i].pc = "done",
                                         !.run[r].task[i].unlink = Some(exc),
                                         !.run[r].task[i].result = Some(TRUE)]
                     /\ UNCHANGED storeVars
                     /\ UNCHANGED <<flt, disc, dl, main>>
                ELSE \E t \in NowRead :
                       Failed([cv EXCEPT !.run[r].task[i].unlink = Some(exc)],
                              r, i, Str(exc), Some(exc), t)

\* Every worker has returned: map returns the results in the order of the
\* documents, and the call of process r ends
MapReturns(r) ==
    /\ cv.pc = "run"
    /\ cv.run[r].pc = "map"
    /\ \A i \in DOMAIN cv.run[r].task : cv.run[r].task[i].pc = "done"
    /\ LET results == [i \in DOMAIN cv.run[r].task |-> cv.run[r].task[i].result[1]]
       IN  cv' = [cv EXCEPT
                    !.run[r].pc = "done",
                    !.run[r].outcome =
                        IF cv.run[r].entry = "convert_pdfs"
                        THEN Some(ConvertPdfsReturns(results))
                        ELSE Some(Returned(results[1]))]
    /\ UNCHANGED storeVars
    /\ UNCHANGED <<flt, disc, dl, main>>

\* The first n places of a file
Prefix(content, n) == SubSeq(content, 1, IF n < Len(content) THEN n ELSE Len(content))

\* Process r is killed inside the stage (or the machine stops): its workers
\* are gone with it, the store and the directories stay as they are, and of
\* a file a worker had open for writing the end that was still in the buffer
\* of the handle is lost
KillRun(r) ==
    /\ cv.pc = "run"
    /\ cv.run[r].pc = "map"
    /\ \E kept \in 0..MaxPdfPages :
         cv' = [cv EXCEPT
                  !.run[r].pc = "killed",
                  !.inode = [n \in DOMAIN @ |->
                               IF \E i \in DOMAIN cv.run[r].task :
                                     cv.run[r].task[i].fd = Some(n)
                               THEN Prefix(@[n], kept) ELSE @[n]]]
    /\ UNCHANGED storeVars
    /\ UNCHANGED <<flt, disc, dl, main>>

\* ------------------------------------------------------------ cleanup
\* get_documents_before_date(date): the rows created before the date
GetDocumentsBeforeDate(tables, date) ==
    {u \in DOMAIN tables : tables[u].created_at < date}

\* delete_document(uuid): the row is deleted
DeleteDocuments(tables, uuids) == [u \in DOMAIN tables \ uuids |-> tables[u]]

\* The PDF names clean_up_files unlinks for a row: that of a 'downloaded'
\* document, and that of a 'failed' one that has one
CleanedPdfs(row) ==
    IF row.processing_status = "downloaded"
       \/ (row.processing_status = "failed" /\ row.pdf_file_name \notin {Null, Some("")})
    THEN {row.pdf_file_name[1]} ELSE {}

\* The text names clean_up_files unlinks for a row: that of a 'parsed'
\* document
CleanedTexts(row) ==
    IF row.processing_status = "parsed" THEN {row.text_file_name[1]} ELSE {}

\* clean_up_files(): for every document created before one week ago the
\* file its status names is unlinked, missing or not, and its row is deleted
CleanUpFiles ==
    /\ cv.pc = "run"
    /\ \A r \in Runs : cv.run[r].pc \in {"idle", "done", "off"}
    /\ \E one_week_ago \in 0..(MaxTime + 1) :
         LET out_of_date_documents == GetDocumentsBeforeDate(db, one_week_ago)
             pdf_paths == UNION {CleanedPdfs(db[u]) : u \in out_of_date_documents}
             text_paths == UNION {CleanedTexts(db[u]) : u \in out_of_date_documents}
         IN  /\ db' = DeleteDocuments(db, out_of_date_documents)
             /\ cv' = [cv EXCEPT
                         !.pdfs = [n \in DOMAIN @ \ pdf_paths |-> @[n]],
                         !.text = [n \in DOMAIN @ \ text_paths |-> @[n]]]
    /\ UNCHANGED <<lock, pending, pc, op, reg, finished, now, observed, calls,
                   flt, disc, dl, main>>

\* ------------------------------------------------------------ the pipeline
\* The process of main.py between two runs
MainIdle ==
    [pc |-> "idle", items |-> <<>>, i |-> 1, ids |-> <<>>, fetch |-> <<>>, docs |-> <<>>]

\* asyncio.run(download_pdfs(transcript_uuids)): the ids the registrar
\* returned in this run
DownloadArgument(tables, transcript_uuids) == transcript_uuids

\* main.py is started
MainStarts ==
    /\ main.pc = "idle"
    /\ main' = [MainIdle EXCEPT !.pc = "discover"]
    /\ UNCHANGED storeVars
    /\ UNCHANGED <<flt, disc, dl, cv>>

\* create_transcript_list returns the transcripts of the date window
MainDiscovers ==
    /\ main.pc = "discover"
    /\ \E items \in TranscriptLists :
         main' = [main EXCEPT !.pc = "register", !.items = items]
    /\ UNCHANGED storeVars
    /\ UNCHANGED <<flt, disc, dl, cv>>

\* One turn of the loop of transcripts_to_dbstate: the dict of the next item
\* goes to insert_document, whose KeyError ends the run, whose IntegrityError
\* skips the item, and whose return appends the id; the loop over, the ids
\* go to download_pdfs
MainRegisters ==
    /\ main.pc = "register"
    /\ IF main.i > Len(main.items)
       THEN /\ main' = [main EXCEPT !.pc = "download", !.i = 1,
                                    !.ids = DownloadArgument(db, main.ids)]
            /\ UNCHANGED storeVars
       ELSE \E u \in NextUuid, ts \in NowReads :
              LET doc == DbState(main.items[main.i], u, ts[1])
              IN  /\ now' = ts[2]
                  /\ IF MissingKey(doc) # ""
                     THEN /\ main' = MainIdle
                          /\ UNCHANGED <<db, observed>>
                     ELSE IF ConstraintViolated(db, doc) # ""
                     THEN /\ main' = [main EXCEPT !.i = @ + 1]
                          /\ UNCHANGED <<db, observed>>
                     ELSE /\ main' = [main EXCEPT !.i = @ + 1,
                                                  !.ids = Append(@, doc.uuid)]
                          /\ db' = (doc.uuid :> InsertedRow(doc, ts[1], ts[2])) @@ db
                          /\ observed' = Observing(db')
                  /\ UNCHANGED <<lock, pending, pc, op, reg, finished, calls>>
    /\ UNCHANGED <<flt, disc, dl, cv>>

\* download_pdfs: the next id is fetched and mark_document_downloaded called,
\* or its fetch fails; what either raises is handed to mark_document_failed;
\* the ids done, convert_pdfs selects the downloaded documents
MainDownloads ==
    /\ main.pc = "download"
    /\ IF main.i > Len(main.ids)
       THEN /\ main' = [main EXCEPT !.pc = "convert", !.i = 1,
                                    !.docs = GetDownloadedDocuments(db)]
            /\ UNCHANGED storeVars
       ELSE /\ \E ts \in NowReads :
                 LET uuid == main.ids[main.i]
                     call == StoreDownloaded(db, uuid, PdfFileName(uuid), ts)
                 IN  /\ now' = ts[2]
                     /\ \/ /\ db' = IF call.result.type = "return" THEN call.db
                                     ELSE StoreFailed(db, uuid, Str(call.result), ts[2])
                           /\ main' = [main EXCEPT !.i = @ + 1,
                                                    !.fetch = Append(@, Returned(Null))]
                        \/ /\ db' = StoreFailed(db, uuid, "timeout", ts[2])
                           /\ main' = [main EXCEPT
                                         !.i = @ + 1,
                                         !.fetch = Append(@, Raised("TimeoutError",
                                                                    "timeout"))]
                     /\ observed' = Observing(db')
            /\ UNCHANGED <<lock, pending, pc, op, reg, finished, calls>>
    /\ UNCHANGED <<flt, disc, dl, cv>>

\* convert_pdfs: the next downloaded document is converted and marked parsed,
\* or its conversion fails and it is marked failed
MainConverts ==
    /\ main.pc = "convert"
    /\ IF main.i > Len(main.docs)
       THEN /\ main' = [main EXCEPT !.pc = "metadata"]
            /\ UNCHANGED storeVars
       ELSE /\ main' = [main EXCEPT !.i = @ + 1]
            /\ \E ts \in NowReads :
                 /\ now' = ts[2]
                 /\ \/ db' = StoreParsed(db, main.docs[main.i],
                                         TextFileName(main.docs[main.i]), ts).db
                    \/ db' = StoreFailed(db, main.docs[main.i],
                                         Str(PdfReadError), ts[2])
                 /\ observed' = Observing(db')
            /\ UNCHANGED <<lock, pending, pc, op, reg, finished, calls>>
    /\ UNCHANGED <<flt, disc, dl, cv>>

\* set_tool_metadata, and the run is over
MainEnds ==
    /\ main.pc = "metadata"
    /\ main' = MainIdle
    /\ UNCHANGED storeVars
    /\ UNCHANGED <<flt, disc, dl, cv>>

\* --------------------------------------------------------- specification
Init ==
    /\ db = NoRows
    /\ lock = 0
    /\ pending = NoRows
    /\ pc = [c \in Callers |-> "idle"]
    /\ op = [c \in Callers |-> NoOp]
    /\ reg = [c \in Callers |-> NoReg]
    /\ finished = {}
    /\ now = 0
    /\ observed = [u \in Uuids |-> {}]
    /\ calls = 0
    /\ flt = NoFilter
    /\ disc = NoDiscovery
    /\ dl = NoDownload
    /\ cv = NoConversion
    /\ main = NoMain

Next ==
    \/ \E c \in Callers : InsertDocument(c)
    \/ \E c \in Callers : MarkDocumentDownloaded(c)
    \/ \E c \in Callers : MarkDocumentParsed(c)
    \/ \E c \in Callers : MarkDocumentFailed(c)
    \/ \E c \in Callers : Wait(c)
    \/ \E c \in Callers : Commit(c)
    \/ \E c \in Callers : TranscriptsToDbstate(c)
    \/ \E c \in Callers : RegisterItem(c)

Spec == Init /\ [][Next]_vars

\* The store's operations with callers whose process may die inside a
\* transaction
NextCrash ==
    \/ \E c \in Callers : InsertDocument(c)
    \/ \E c \in Callers : MarkDocumentDownloaded(c)
    \/ \E c \in Callers : MarkDocumentParsed(c)
    \/ \E c \in Callers : MarkDocumentFailed(c)
    \/ \E c \in Callers : Wait(c)
    \/ \E c \in Callers : Commit(c)
    \/ \E c \in Callers : Crash(c)

SpecCrash == Init /\ [][NextCrash]_vars

\* The store as construction leaves it, no call running
StoreIdle ==
    /\ db = NoRows
    /\ lock = 0
    /\ pending = NoRows
    /\ pc = [c \in Callers |-> "idle"]
    /\ op = [c \in Callers |-> NoOp]
    /\ reg = [c \in Callers |-> NoReg]
    /\ finished = {}
    /\ now = 0
    /\ observed = [u \in Uuids |-> {}]
    /\ calls = 0

\* The relevance filter applied to a page of the feed
InitFilter ==
    /\ StoreIdle
    /\ flt \in {[pc |-> "called", json |-> j, result |-> <<>>] : j \in FilterPages}
    /\ disc = NoDiscovery
    /\ dl = NoDownload
    /\ cv = NoConversion
    /\ main = NoMain

NextFilter == FilterReturn

SpecFilter == InitFilter /\ [][NextFilter]_vars

\* One call of create_transcript_list
InitDiscovery ==
    /\ StoreIdle
    /\ flt = NoFilter
    /\ disc = DiscoveryEntered
    /\ dl = NoDownload
    /\ cv = NoConversion
    /\ main = NoMain

NextDiscovery ==
    \/ FetchPage1
    \/ \E p \in 2..MaxRows : AcquirePage(p)
    \/ \E p \in 2..MaxRows : CompletePage(p)
    \/ GatherReturns
    \/ GatherRaises

SpecDiscovery == InitDiscovery /\ [][NextDiscovery]_vars

\* One call of download_pdfs on the ids of distinct documents, each with its
\* row as insert_document left it ('discovered') or without a row
InitDownload ==
    /\ lock = 0
    /\ pending = NoRows
    /\ pc = [c \in Callers |-> "idle"]
    /\ op = [c \in Callers |-> NoOp]
    /\ reg = [c \in Callers |-> NoReg]
    /\ finished = {}
    /\ now = 0
    /\ calls = 0
    /\ flt = NoFilter
    /\ disc = NoDiscovery
    /\ cv = NoConversion
    /\ main = NoMain
    /\ \E uuids \in SUBSET Uuids, stored \in SUBSET Uuids :
         /\ stored \subseteq uuids
         /\ db = [u \in stored |->
                    InsertedRow([uuid |-> u, company_name |-> "Corp", script_code |-> "code",
                                 pdf_url |-> BSE_PDF_URL_CURRENT \o u,
                                 pdf_url_sha256 |-> Sha256(BSE_PDF_URL_CURRENT \o u),
                                 json_text |-> "{}", announcement_date |-> 0], 0, 0)]
         /\ observed = [u \in Uuids |-> IF u \in stored THEN {"discovered"} ELSE {}]
         /\ dl = DownloadEntered(db, uuids)

NextDownload ==
    \/ \E u \in Uuids : AcquirePdf(u)
    \/ \E u \in Uuids : OpenPdf(u)
    \/ \E u \in Uuids : WriteChunk(u)
    \/ \E u \in Uuids : EndOfBody(u)
    \/ \E u \in Uuids : MarkFetched(u)
    \/ \E u \in Uuids : FetchFails(u)
    \/ DownloadReturns

SpecDownload == InitDownload /\ [][NextDownload]_vars

\* The event loop runs every task that is ready, and every request is
\* answered, fails or times out
SpecDownloadFair == SpecDownload /\ WF_vars(NextDownload)

\* download_pdfs runs on documents that are 'discovered' while another
\* process is in the download stage with the same ids
InitDownloadTwice ==
    /\ lock = 0
    /\ pending = NoRows
    /\ pc = [c \in Callers |-> "idle"]
    /\ op = [c \in Callers |-> NoOp]
    /\ reg = [c \in Callers |-> NoReg]
    /\ finished = {}
    /\ now = 0
    /\ calls = 0
    /\ flt = NoFilter
    /\ disc = NoDiscovery
    /\ cv = NoConversion
    /\ \E stored \in SUBSET Uuids :
         /\ db = [u \in stored |->
                    InsertedRow([uuid |-> u, company_name |-> "Corp", script_code |-> "code",
                                 pdf_url |-> BSE_PDF_URL_CURRENT \o u,
                                 pdf_url_sha256 |-> Sha256(BSE_PDF_URL_CURRENT \o u),
                                 json_text |-> "{}", announcement_date |-> 0], 0, 0)]
         /\ observed = [u \in Uuids |-> IF u \in stored THEN {"discovered"} ELSE {}]
         /\ dl = DownloadEntered(db, stored)
         /\ main = [MainIdle EXCEPT !.pc = "download", !.ids = Listed(stored, 1)]

NextDownloadTwice ==
    \/ NextDownload
    \/ MainDownloads

SpecDownloadTwice == InitDownloadTwice /\ [][NextDownloadTwice]_vars

\* The rows of a document as insert_document and mark_document_downloaded
\* leave them
Discovered(u) ==
    InsertedRow([uuid |-> u, company_name |-> "Corp", script_code |-> "code",
                 pdf_url |-> BSE_PDF_URL_CURRENT \o u,
                 pdf_url_sha256 |-> Sha256(BSE_PDF_URL_CURRENT \o u),
                 json_text |-> "{}", announcement_date |-> 0], 0, 0)

Downloaded(u) == DownloadedSet(Discovered(u), PdfFileName(u), 0, 0)

\* The store and the directories when the processes of runs are about to
\* convert: the documents of stored are downloaded and have a PDF every page
\* of which is extracted, but for one, which is downloaded with any PDF or
\* none, or only discovered, or failed after its download; the text
\* directory is empty
ConversionStarts(stored, runs) ==
    /\ lock = 0
    /\ pending = NoRows
    /\ pc = [c \in Callers |-> "idle"]
    /\ op = [c \in Callers |-> NoOp]
    /\ reg = [c \in Callers |-> NoReg]
    /\ finished = {}
    /\ now = 0
    /\ calls = 0
    /\ flt = NoFilter
    /\ disc = NoDiscovery
    /\ dl = NoDownload
    /\ main = NoMain
    /\ \E odd \in Uuids, status \in {"discovered", "downloaded", "failed"},
          pdf \in {Null} \cup {Some(c) : c \in PdfContents} :
         /\ status = "discovered" => pdf = Null
         /\ status = "failed" => pdf = Some(PlainPdf)
         /\ db = [u \in stored |->
                    IF u = odd /\ status = "discovered" THEN Discovered(u)
                    ELSE IF u = odd /\ status = "failed"
                    THEN FailedSet(Downloaded(u), "timeout", 0)
                    ELSE Downloaded(u)]
         /\ observed = [u \in Uuids |->
                          IF u \in stored THEN {db[u].processing_status} ELSE {}]
         /\ cv = [pc |-> "run",
                  pdfs |-> [n \in {PdfFileName(u) :
                                     u \in {v \in stored : v # odd \/ pdf # Null}} |->
                              IF n = PdfFileName(odd) THEN pdf[1] ELSE PlainPdf],
                  text |-> <<>>, inode |-> <<>>,
                  run |-> [r \in Runs |-> IF r \in runs THEN RunIdle ELSE RunOff]]

\* One process runs the conversion stage, or calls convert_pdf_to_text
InitConvert == \E stored \in SUBSET Uuids : ConversionStarts(stored, {"first"})

\* A step of process r in the conversion stage
ConversionStep(r) ==
    \/ ConvertPdfs(r)
    \/ \E u \in Uuids : ConvertPdfToText(r, u)
    \/ \E i \in 1..MaxDocs : GetDocument(r, i)
    \/ \E i \in 1..MaxDocs : OpenFiles(r, i)
    \/ \E i \in 1..MaxDocs : ExtractPage(r, i)
    \/ \E i \in 1..MaxDocs : Replace(r, i)
    \/ \E i \in 1..MaxDocs : MarkParsed(r, i)
    \/ \E i \in 1..MaxDocs : Unlink(r, i)
    \/ MapReturns(r)

NextConvert == \E r \in Runs : ConversionStep(r)

SpecConvert == InitConvert /\ [][NextConvert]_vars

\* Two processes run the conversion stage at the same time, with one
\* downloaded document in the store
InitConvertTwice == \E u \in Uuids : ConversionStarts({u}, Runs)

SpecConvertTwice == InitConvertTwice /\ [][NextConvert]_vars

\* A process runs the conversion stage with one document in the store and is
\* killed at any step; after that a second process runs the stage
InitConvertAgain == \E u \in Uuids : ConversionStarts({u}, Runs)

NextConvertAgain ==
    \/ ConversionStep("first")
    \/ KillRun("first")
    \/ cv.run["first"].pc = "killed" /\ ConversionStep("second")

SpecConvertAgain == InitConvertAgain /\ [][NextConvertAgain]_vars

\* A process runs the conversion stage, and the cleanup sweep runs before or
\* after it
NextCleanup ==
    \/ ConversionStep("first")
    \/ CleanUpFiles

SpecCleanup == InitConvert /\ [][NextCleanup]_vars

\* The pipeline is run again and again over a store that earlier runs,
\* interrupted or not, left: each document absent, 'discovered' or
\* 'downloaded'
InitPipeline ==
    /\ lock = 0
    /\ pending = NoRows
    /\ pc = [c \in Callers |-> "idle"]
    /\ op = [c \in Callers |-> NoOp]
    /\ reg = [c \in Callers |-> NoReg]
    /\ finished = {}
    /\ now = 0
    /\ calls = 0
    /\ flt = NoFilter
    /\ disc = NoDiscovery
    /\ dl = NoDownload
    /\ cv = NoConversion
    /\ main = MainIdle
    /\ \E stored \in SUBSET Uuids, downloaded \in SUBSET Uuids :
         /\ downloaded \subseteq stored
         /\ db = [u \in stored |->
                    IF u \in downloaded THEN Downloaded(u) ELSE Discovered(u)]
         /\ observed = [u \in Uuids |->
                          IF u \in stored THEN {db[u].processing_status} ELSE {}]

\* The steps of a run
NextPipeline ==
    \/ MainStarts
    \/ MainDiscovers
    \/ MainRegisters
    \/ MainDownloads
    \/ MainConverts
    \/ MainEnds

SpecPipeline == InitPipeline /\ [][NextPipeline]_vars

\* Fair re-running: a run takes its next step, and after every run another
\* one is started
SpecPipelineFair == SpecPipeline /\ WF_vars(NextPipeline)

\* ------------------------------------------------------------- properties
\* The message of the ValueError raised for a row found in status found
InvalidTransition(expected, found) ==
    Raised("ValueError", <<"Expected '", expected, "', found '", found, "'">>)

NotFound(uuid) == Raised("ValueError", <<"Document '", uuid, "' not found">>)

\* What every step in which c runs the statement of the call o shows: c has
\* the transaction of o open, or o is among the finished calls
Ran(c, o) ==
    IF pc'[c] = "commit"
    THEN op'[c] = o
    ELSE pc'[c] = "idle" /\ \E r \in finished' : Call(o, r.result) = r

\* c, making a call or resuming one, runs the statement of this call
RunsDownloaded(c, u, f) ==
    Ran(c, DownloadedCall(u, f)) /\ ExecDownloaded(c, DownloadedCall(u, f))

RunsParsed(c, u, f) ==
    Ran(c, ParsedCall(u, f)) /\ ExecParsed(c, ParsedCall(u, f))

RunsFailed(c, u, r) ==
    Ran(c, FailedCall(u, r)) /\ ExecFailed(c, FailedCall(u, r))

\* C1: mark_document_downloaded(id, file_name) succeeds if and only if the
\* stored status is exactly 'discovered'; on success the row has status
\* 'downloaded' with pdf_file_name = file_name and pdf_created_at set by the
\* same update; on an existing row in any other status it raises an error
\* that names that status.
DownloadedGuard ==
    [][\A c \in Callers :
         /\ Calls(c) => \A u \in Uuids, f \in PdfNames :
            RunsDownloaded(c, u, f) =>
              /\ pc'[c] = "commit" <=> (u \in DOMAIN db /\ db[u].processing_status = "discovered")
              /\ pc'[c] = "commit" =>
                   /\ DOMAIN pending' = {u}
                   /\ pending'[u].processing_status = "downloaded"
                   /\ pending'[u].pdf_file_name = Some(f)
                   /\ pending'[u].pdf_created_at # Null
              /\ (u \in DOMAIN db /\ db[u].processing_status # "discovered") =>
                   Call(DownloadedCall(u, f),
                        InvalidTransition("discovered", db[u].processing_status)) \in finished'
         /\ Commit(c) => \A u \in Uuids, f \in PdfNames :
            op[c] = DownloadedCall(u, f) =>
              /\ Call(DownloadedCall(u, f), Returned(<<>>)) \in finished'
              /\ db'[u].processing_status = "downloaded"
              /\ db'[u].pdf_file_name = Some(f)
              /\ db'[u].pdf_created_at # Null
              /\ db[u].pdf_created_at = Null
      ]_vars

\* A mark_document_downloaded call has returned and its row is as it set it
DownloadedReturned ==
    \E r \in finished :
        /\ r.name = "mark_document_downloaded"
        /\ r.result = Returned(<<>>)
        /\ db[r.uuid].processing_status = "downloaded"
        /\ db[r.uuid].pdf_file_name = Some(r.arg)

\* C2: mark_document_parsed(id, file_name) succeeds if and only if the stored
\* status is exactly 'downloaded'; on success the row has status 'parsed'
\* with text_file_name = file_name and text_file_created_at set by the same
\* update, and pdf_file_name is what it was; on an existing row in any other
\* status it raises an error that names that status.
ParsedGuard ==
    [][\A c \in Callers :
         /\ Calls(c) => \A u \in Uuids, f \in TextNames :
            RunsParsed(c, u, f) =>
              /\ pc'[c] = "commit" <=> (u \in DOMAIN db /\ db[u].processing_status = "downloaded")
              /\ pc'[c] = "commit" =>
                   /\ DOMAIN pending' = {u}
                   /\ pending'[u].processing_status = "parsed"
                   /\ pending'[u].text_file_name = Some(f)
                   /\ pending'[u].text_file_created_at # Null
                   /\ pending'[u].pdf_file_name = db[u].pdf_file_name
              /\ (u \in DOMAIN db /\ db[u].processing_status # "downloaded") =>
                   Call(ParsedCall(u, f),
                        InvalidTransition("downloaded", db[u].processing_status)) \in finished'
         /\ Commit(c) => \A u \in Uuids, f \in TextNames :
            op[c] = ParsedCall(u, f) =>
              /\ Call(ParsedCall(u, f), Returned(<<>>)) \in finished'
              /\ db'[u].processing_status = "parsed"
              /\ db'[u].text_file_name = Some(f)
              /\ db'[u].text_file_created_at # Null
              /\ db[u].text_file_created_at = Null
              /\ db'[u].pdf_file_name = db[u].pdf_file_name
      ]_vars

\* A mark_document_parsed call has returned and its row is as it set it
ParsedReturned ==
    \E r \in finished :
        /\ r.name = "mark_document_parsed"
        /\ r.result = Returned(<<>>)
        /\ db[r.uuid].processing_status = "parsed"
        /\ db[r.uuid].text_file_name = Some(r.arg)
        /\ db[r.uuid].pdf_file_name # Null

\* C3: mark_document_failed(id, reason) on an existing document succeeds from
\* every status (discovered, downloaded, parsed, failed): it raises no
\* error, and afterwards the status is 'failed' and error_message = reason.
FailedAlways ==
    [][\A c \in Callers :
         /\ Calls(c) => \A u \in Uuids, r \in Reasons :
            RunsFailed(c, u, r) =>
              /\ pc'[c] = "commit"
              /\ u \in DOMAIN db =>
                   /\ DOMAIN pending' = {u}
                   /\ pending'[u].processing_status = "failed"
                   /\ pending'[u].error_message = Some(r)
         /\ Commit(c) => \A u \in Uuids, r \in Reasons :
            op[c] = FailedCall(u, r) =>
              /\ Call(FailedCall(u, r), Returned(<<>>)) \in finished'
              /\ u \in DOMAIN db =>
                   /\ db'[u].processing_status = "failed"
                   /\ db'[u].error_message = Some(r)
      ]_vars

\* A mark_document_failed call has returned on a row that had been parsed
FailedFromParsed ==
    \E r \in finished :
        /\ r.name = "mark_document_failed"
        /\ r.result = Returned(<<>>)
        /\ r.uuid \in DOMAIN db
        /\ "parsed" \in observed[r.uuid]
        /\ db[r.uuid].processing_status = "failed"
        /\ db[r.uuid].error_message = Some(r.arg)

\* C4: monotonicity: no document's status is ever 'parsed' unless it was
\* 'downloaded' at an earlier point, and never 'downloaded' unless it was
\* 'discovered' at an earlier point.
Monotonicity ==
    \A u \in DOMAIN db :
        /\ db[u].processing_status \in observed[u]
        /\ "parsed" \in observed[u] => "downloaded" \in observed[u]
        /\ "downloaded" \in observed[u] => "discovered" \in observed[u]

\* A document is parsed, having been discovered and downloaded
ParsedAfterDownloaded ==
    \E u \in DOMAIN db :
        /\ db[u].processing_status = "parsed"
        /\ {"discovered", "downloaded"} \subseteq observed[u]

\* C5: 'failed' is terminal: once a document's status is 'failed', no call
\* of mark_document_downloaded, mark_document_parsed or mark_document_failed
\* changes it to anything other than 'failed'.
FailedTerminal ==
    [][\A u \in DOMAIN db :
         db[u].processing_status = "failed" =>
             /\ u \in DOMAIN db'
             /\ db'[u].processing_status = "failed"
             /\ u \in DOMAIN pending' => pending'[u].processing_status = "failed"
      ]_vars

\* A guarded transition was attempted on a failed document and rejected
RejectedOnFailed ==
    \E r \in finished :
        /\ r.name \in {"mark_document_downloaded", "mark_document_parsed"}
        /\ r.uuid \in DOMAIN db
        /\ db[r.uuid].processing_status = "failed"
        /\ \E e \in Statuses : r.result = InvalidTransition(e, "failed")

\* C6 as the specification states it: for every document, pdf_file_name is
\* non-null if and only if the status is 'downloaded' or later ('parsed'),
\* and text_file_name is non-null if and only if the status is 'parsed'.
FileNamesFollowStatus ==
    \A u \in DOMAIN db :
        /\ db[u].pdf_file_name # Null <=> db[u].processing_status \in {"downloaded", "parsed"}
        /\ db[u].text_file_name # Null <=> db[u].processing_status = "parsed"

\* C6, amended: for every document whose status is not 'failed',
\* pdf_file_name is non-null if and only if the status is 'downloaded' or
\* 'parsed', and text_file_name is non-null if and only if the status is
\* 'parsed'; a failed document keeps the file names it had when it failed:
\* pdf_file_name is non-null if and only if it had been downloaded, and
\* text_file_name if and only if it had been parsed.
FileNamesFollowHistory ==
    \A u \in DOMAIN db :
        /\ db[u].processing_status # "failed" =>
             /\ db[u].pdf_file_name # Null <=>
                    db[u].processing_status \in {"downloaded", "parsed"}
             /\ db[u].text_file_name # Null <=> db[u].processing_status = "parsed"
        /\ db[u].pdf_file_name # Null <=> "downloaded" \in observed[u]
        /\ db[u].text_file_name # Null <=> "parsed" \in observed[u]

\* A failed document that still names its PDF
FailedKeepsPdfName ==
    \E u \in DOMAIN db :
        /\ db[u].processing_status = "failed"
        /\ db[u].pdf_file_name # Null

\* C7: when two callers concurrently invoke mark_document_downloaded on the
\* same 'discovered' document with different file names, exactly one call
\* succeeds and the other raises an invalid-transition error; the stored
\* pdf_file_name is the winner's, never overwritten by the loser.  (No call
\* on a 'discovered' row is rejected; of two overlapping calls the one that
\* is not the winner is rejected, and the row names the winner's file.)
OneWinner ==
    /\ \A r \in finished :
         r.name = "mark_document_downloaded" =>
             r.result # InvalidTransition("discovered", "discovered")
    /\ \A r1, r2 \in finished :
         ( /\ r1.name = "mark_document_downloaded"
           /\ r2.name = "mark_document_downloaded"
           /\ r1.uuid = r2.uuid
           /\ r1.arg # r2.arg
           /\ r1.result = Returned(<<>>) ) =>
             /\ \E st \in Statuses \ {"discovered"} :
                    r2.result = InvalidTransition("discovered", st)
             /\ db[r1.uuid].pdf_file_name = Some(r1.arg)

\* Two overlapping mark_document_downloaded calls on one document have ended:
\* one returned, the other found the row 'downloaded'
WinnerAndLoser ==
    \E r1, r2 \in finished :
        /\ r1.name = "mark_document_downloaded"
        /\ r2.name = "mark_document_downloaded"
        /\ r1.uuid = r2.uuid
        /\ r1.arg # r2.arg
        /\ r1.result = Returned(<<>>)
        /\ r2.result = InvalidTransition("discovered", "downloaded")
        /\ db[r1.uuid].pdf_file_name = Some(r1.arg)

\* C8: a guarded transition (mark_document_downloaded, mark_document_parsed)
\* on an id that has no row fails with a not-found error, which differs from
\* every invalid-transition error, and it neither creates a row nor changes
\* an existing one.
NotFoundDistinct ==
    [][\A c \in Callers : Calls(c) => \A u \in Uuids \ DOMAIN db :
         /\ \A e, st \in Statuses : NotFound(u) # InvalidTransition(e, st)
         /\ \A f \in PdfNames :
              RunsDownloaded(c, u, f) =>
                  /\ Call(DownloadedCall(u, f), NotFound(u)) \in finished'
                  /\ pc'[c] = "idle"
                  /\ db' = db
                  /\ pending' = pending
         /\ \A f \in TextNames :
              RunsParsed(c, u, f) =>
                  /\ Call(ParsedCall(u, f), NotFound(u)) \in finished'
                  /\ pc'[c] = "idle"
                  /\ db' = db
                  /\ pending' = pending
      ]_vars

\* A guarded transition on an id without a row has failed, the store holding
\* other rows
NotFoundRaised ==
    \E r \in finished :
        /\ r.name \in {"mark_document_downloaded", "mark_document_parsed"}
        /\ r.result = NotFound(r.uuid)
        /\ r.uuid \notin DOMAIN db
        /\ DOMAIN db # {}

\* C9: a rejected guarded transition leaves the row unchanged: on a document
\* that mark_downloaded(id, a) has moved from 'discovered' to 'downloaded',
\* mark_downloaded(id, b) fails reporting status 'downloaded', and status,
\* pdf_file_name (= a), pdf_created_at and updated_at stay what the first
\* call set.
RejectionChangesNothing ==
    [][\A c \in Callers : Calls(c) => \A u \in Uuids :
         /\ \A f \in PdfNames :
              /\ (RunsDownloaded(c, u, f) /\ pc'[c] # "commit") =>
                     db' = db /\ pending' = pending
              /\ ( /\ RunsDownloaded(c, u, f)
                   /\ u \in DOMAIN db
                   /\ db[u].processing_status = "downloaded" ) =>
                     /\ Call(DownloadedCall(u, f),
                             InvalidTransition("discovered", "downloaded")) \in finished'
                     /\ db'[u] = db[u]
         /\ \A f \in TextNames :
              (RunsParsed(c, u, f) /\ pc'[c] # "commit") =>
                  db' = db /\ pending' = pending
      ]_vars

\* mark_downloaded(id, "q.pdf") made after mark_downloaded(id, "p.pdf") had
\* returned was rejected, and the row is as the first call left it
SecondDownloadRejected ==
    \E u \in DOMAIN db :
        /\ finished = {Call(DownloadedCall(u, "q.pdf"),
                            InvalidTransition("discovered", "downloaded"))}
        /\ db[u].processing_status = "downloaded"
        /\ db[u].pdf_file_name = Some("p.pdf")
        /\ db[u].pdf_created_at # Null

\* C10: dedup: pdf_url_sha256 is unique across the stored documents;
\* transcripts_to_dbstate raises no error to its caller, an item whose PDF URL
\* is already stored adds no row and is left out of the returned ids, and
\* every other item is stored under the id returned for it.
RegistrationDedup ==
    /\ \A u, v \in DOMAIN db :
         u # v => db[u].pdf_url_sha256 # db[v].pdf_url_sha256
    /\ \A r \in finished :
         r.name = "transcripts_to_dbstate" =>
             /\ r.result.type = "return"
             /\ \A i \in 1..Len(r.result.value) : r.result.value[i] \in DOMAIN db
             /\ Len(r.arg) = 1 =>
                    \E u \in DOMAIN db :
                        db[u].pdf_url_sha256 \in
                            {Sha256(BSE_PDF_URL_PAST \o r.arg[1].ATTACHMENTNAME),
                             Sha256(BSE_PDF_URL_CURRENT \o r.arg[1].ATTACHMENTNAME)}

\* C11: transcripts_to_dbstate(raw_items) returns one id per item it inserted,
\* in the relative order of the input, and every returned id names a stored
\* row with status 'discovered', null pdf_file_name and text_file_name, whose
\* company, code, URL and announcement date come from that item.
RegistrationReturnsIds ==
    \A r \in finished :
        r.name = "transcripts_to_dbstate" =>
            /\ r.result.type = "return"
            /\ \E at \in [1..Len(r.result.value) -> 1..Len(r.arg)] :
                 /\ \A i, j \in DOMAIN at : i < j => at[i] < at[j]
                 /\ \A i \in DOMAIN at :
                      LET uuid == r.result.value[i]
                          item == r.arg[at[i]]
                      IN  /\ uuid \in DOMAIN db
                          /\ db[uuid].processing_status = "discovered"
                          /\ db[uuid].pdf_file_name = Null
                          /\ db[uuid].text_file_name = Null
                          /\ db[uuid].company_name = item.SLONGNAME
                          /\ db[uuid].script_code = item.SCRIP_CD
                          /\ db[uuid].pdf_url \in
                                 {BSE_PDF_URL_PAST \o item.ATTACHMENTNAME,
                                  BSE_PDF_URL_CURRENT \o item.ATTACHMENTNAME}
                          /\ db[uuid].announcement_date = item.NEWS_DT[1]

\* The transcripts among the n announcements of page p of the feed, in order
FeedTranscripts(p, n) ==
    SelectSeq([i \in 1..n |-> FeedItem(p, i)],
              LAMBDA ann : ann.NEWSSUB = Some(StrUpper(TranscriptMarker)))

\* Page 1 was fetched, and the number of announcements and of rows it reports
Page1Fetched == disc.page1 # Null /\ disc.page1[1].type = "return"
Page1Size == Len(disc.page1[1].value.Table)
Page1Rows == disc.page1[1].value.Table1[1].ROWCNT

\* Page 1's transcripts followed by those of the pages from p on whose fetch
\* succeeded
RECURSIVE InPageOrder(_)
InPageOrder(p) ==
    IF p > disc.total_pages THEN <<>>
    ELSE (IF p = 1 THEN FeedTranscripts(1, Page1Size)
          ELSE IF disc.fetched[p] = "return" THEN FeedTranscripts(p, FeedPageSize)
          ELSE <<>>) \o InPageOrder(p + 1)

\* C12: partial-failure isolation: whichever of the pages 2..total_pages fail
\* to be fetched (timeout, transport error, HTTP error status, malformed
\* response), create_transcript_list raises nothing and returns page 1's
\* filtered items plus those of every page that succeeded.
PartialFailureIsolation ==
    (disc.pc = "done" /\ disc.total_pages > 1) =>
        disc.outcome = Some(Returned(InPageOrder(1)))

\* C13: create_transcript_list raises only when the fetch of page 1 fails: for
\* every page 1 that was fetched, whatever its item count and reported row
\* count, the call returns a list.
OnlyPage1Fails ==
    (disc.pc = "done" /\ Page1Fetched) => disc.outcome[1].type = "return"

\* C14: for every page 1 of page_size items reporting total_rows rows, page_size
\* = 0 and total_rows = 0 included, total_pages is ceil(total_rows / page_size)
\* floored at 1, and exactly one fetch is issued for each page of
\* 2..total_pages, none outside.
TotalPagesAndFetches ==
    (disc.pc = "done" /\ Page1Fetched) =>
        /\ disc.total_pages >= 1
        /\ disc.total_pages > 1 => Page1Size * (disc.total_pages - 1) < Page1Rows
        /\ Page1Rows <= Page1Size * disc.total_pages \/ Page1Size = 0
        /\ DOMAIN disc.issued = 2..disc.total_pages
        /\ \A p \in DOMAIN disc.issued : disc.issued[p] = 1

\* C15: whatever order the page fetches complete in, the list returned is page
\* 1's retained items followed by those of pages 2, 3, ... in ascending page
\* number, items in their order on the page, nothing where a page failed.
ReturnedInPageOrder ==
    (disc.pc = "done" /\ disc.outcome[1].type = "return") =>
        disc.outcome[1].value = InPageOrder(1)

\* Pages 3, 4, 2 completed in that order, page 3 timed out, and two
\* transcripts of one page were returned
ReturnedOutOfOrder ==
    /\ disc.pc = "done"
    /\ disc.completed = <<3, 4, 2>>
    /\ disc.fetched[3] = "TimeoutError"
    /\ disc.outcome =
         Some(Returned(<<FeedItem(1, 1), FeedItem(2, 1), FeedItem(2, 2),
                         FeedItem(4, 1), FeedItem(4, 2)>>))

\* C16: during discovery at most MAX_CONCURRENT_JSON_REQUESTS page fetches are
\* in flight, the connection pool's per-host limit is that same number, and
\* the permit is given back on every exit of a page task, so that every page
\* of 2..total_pages is attempted.
DiscoveryBounded ==
    /\ disc.pc # "none" => disc.limit_per_host = MAX_CONCURRENT_JSON_REQUESTS
    /\ disc.pc = "gather" =>
         /\ Cardinality(PagesIn(disc, {"fetching"})) <= MAX_CONCURRENT_JSON_REQUESTS
         /\ disc.sem + Cardinality(PagesIn(disc, {"fetching"})) = MAX_CONCURRENT_JSON_REQUESTS
    /\ disc.pc = "done" => \A p \in 2..disc.total_pages : disc.issued[p] >= 1

\* Text compared without regard to case: sub occurs in s, s ends with suffix
Folded(ch) == StrLower(<<ch>>)[1]

OccursIgnoringCase(sub, s) ==
    \E i \in 0..(Len(s) - Len(sub)) :
        \A k \in 1..Len(sub) : Folded(s[i + k]) = Folded(sub[k])

EndsIgnoringCase(s, suffix) ==
    /\ Len(s) >= Len(suffix)
    /\ \A k \in 1..Len(suffix) :
         Folded(s[Len(s) - Len(suffix) + k]) = Folded(suffix[k])

\* s without the whitespace that follows its last character
RECURSIVE WithoutTrailingBlanks(_)
WithoutTrailingBlanks(s) ==
    IF s = <<>> \/ s[Len(s)] \notin Whitespace THEN s
    ELSE WithoutTrailingBlanks(SubSeq(s, 1, Len(s) - 1))

\* The announcements handed to the filter (none when the page has no "Table")
FilterInput == IF "Table" \in DOMAIN flt.json THEN flt.json.Table ELSE <<>>

\* C17 as stated: an announcement is retained if and only if NEWSSUB contains
\* 'earnings call transcript' and ATTACHMENTNAME ends with '.pdf', both
\* without regard to case; a missing or null field counts as the empty string,
\* a page without a results array yields the empty list, and the retained
\* items keep their input order.
FilterRetainsRelevant ==
    flt.pc = "returned" =>
        flt.result =
            SelectSeq(FilterInput,
                      LAMBDA ann :
                        /\ OccursIgnoringCase(TranscriptMarker, GetOrEmpty(ann, "NEWSSUB"))
                        /\ EndsIgnoringCase(GetOrEmpty(ann, "ATTACHMENTNAME"), PdfSuffix))

\* C17: an announcement is retained if and only if NEWSSUB contains 'earnings
\* call transcript' and ATTACHMENTNAME, its trailing whitespace left aside,
\* ends with '.pdf', both without regard to case; a missing or null field
\* counts as the empty string, a page without a results array yields the
\* empty list, and the retained items keep their input order.
FilterRetainsTrimmed ==
    flt.pc = "returned" =>
        flt.result =
            SelectSeq(FilterInput,
                      LAMBDA ann :
                        /\ OccursIgnoringCase(TranscriptMarker, GetOrEmpty(ann, "NEWSSUB"))
                        /\ EndsIgnoringCase(
                               WithoutTrailingBlanks(GetOrEmpty(ann, "ATTACHMENTNAME")),
                               PdfSuffix))

\* A page of two transcripts, the first with a blank after its attachment
\* name, the second with its subject in upper case: both retained, in order
FilterKeepsPadded ==
    /\ flt.pc = "returned"
    /\ FilterInput =
         <<[NEWSSUB |-> Some(TranscriptMarker),
            ATTACHMENTNAME |-> Some(<<"a", ".", "p", "d", "f", " ">>)],
           [NEWSSUB |-> Some(StrUpper(TranscriptMarker)),
            ATTACHMENTNAME |-> Some(<<"a", ".", "p", "d", "f">>)]>>
    /\ flt.result = FilterInput

\* mark_document_downloaded was called for uuid during the download
MarkedDownloaded(uuid) ==
    \E i \in 1..Len(dl.marks[uuid]) : dl.marks[uuid][i][1] = "downloaded"

\* C18: download per-item isolation: download_pdfs never raises because of an
\* item's failure (missing URL, transport error, error status, I/O error);
\* each failing item gets mark_document_failed with the failure's reason, every
\* other item is still fetched, and mark_document_downloaded is called exactly
\* for the items whose fetch succeeded.
DownloadIsolation ==
    dl.pc = "done" =>
        /\ dl.outcome = Some(Returned(Null))
        /\ \A u \in dl.uuids :
             /\ dl.fetch[u] # Null
             /\ MarkedDownloaded(u) <=> dl.fetch[u][1].type = "return"
             /\ dl.fetch[u][1].type # "return" =>
                  /\ dl.marks[u] = << <<"failed", dl.fetch[u][1].value>> >>
                  /\ u \in DOMAIN db =>
                       /\ db[u].processing_status = "failed"
                       /\ db[u].error_message = Some(dl.fetch[u][1].value)

\* download_pdfs has returned: one document failed on an error status and is
\* 'failed', another was fetched and is 'downloaded'
DownloadedBesideFailed ==
    /\ dl.pc = "done"
    /\ \E u, v \in dl.uuids :
         /\ {u, v} \subseteq DOMAIN db
         /\ dl.fetch[u][1].type = "ClientResponseError"
         /\ db[u].processing_status = "failed"
         /\ dl.fetch[v][1].type = "return"
         /\ db[v].processing_status = "downloaded"

\* C19: in the download stage the PDF is completely written to <document
\* id>.pdf before mark_document_downloaded is called, so a document whose
\* status is 'downloaded' has its complete PDF on disk under the recorded
\* pdf_file_name.
DownloadedHasFile ==
    /\ \A u \in DOMAIN db :
         db[u].processing_status = "downloaded" =>
             /\ db[u].pdf_file_name = Some(PdfFileName(u))
             /\ PdfFileName(u) \in DOMAIN dl.files
             /\ dl.files[PdfFileName(u)].closed
    /\ \A u \in dl.uuids :
         MarkedDownloaded(u) =>
             /\ PdfFileName(u) \in DOMAIN dl.files
             /\ dl.files[PdfFileName(u)].closed

\* A document is 'downloaded' with a body of MaxChunks chunks on disk, beside
\* the unfinished file of a download that failed
DownloadedWithBody ==
    \E u, v \in dl.uuids :
        /\ u \in DOMAIN db
        /\ db[u].processing_status = "downloaded"
        /\ dl.files[PdfFileName(u)] = [chunks |-> MaxChunks, closed |-> TRUE]
        /\ dl.task[v] = "done"
        /\ PdfFileName(v) \in DOMAIN dl.files
        /\ ~dl.files[PdfFileName(v)].closed

\* fetch_pdf was called for uuid: its task came past the semaphore
Attempted(uuid) ==
    /\ uuid \in dl.uuids
    /\ dl.task[uuid] \in {"requesting", "writing", "fetched", "done"}

\* C20: during download_pdfs at most MAX_CONCURRENT_PDF_REQUESTS downloads are
\* in flight past the semaphore, the connection pool's per-host limit is that
\* same value, and it is smaller than the discovery limit; the permit is given
\* back on every exit, so every requested document is eventually attempted.
DownloadsBounded ==
    /\ [](/\ Cardinality(InFlight(dl)) <= MAX_CONCURRENT_PDF_REQUESTS
          /\ dl.sem + Cardinality(InFlight(dl)) = MAX_CONCURRENT_PDF_REQUESTS
          /\ dl.limit_per_host = MAX_CONCURRENT_PDF_REQUESTS
          /\ MAX_CONCURRENT_PDF_REQUESTS < MAX_CONCURRENT_JSON_REQUESTS)
    /\ <>(\A u \in dl.uuids : Attempted(u))

\* As many downloads are in flight as there are permits, and a document waits
DownloadWaits ==
    /\ dl.pc = "gather"
    /\ Cardinality(InFlight(dl)) = MAX_CONCURRENT_PDF_REQUESTS
    /\ TasksIn(dl, {"waiting"}) # {}

\* C21: the final text file <document id>.txt comes into existence only by a
\* rename of a completely written staging file: while a final text file is
\* visible under its name, its content never changes, so no reader sees it
\* shorter than its final content, also when two conversions of the same
\* document run at the same time.
AtomicTextOutput ==
    [][\A u \in Uuids :
         (/\ TextFileName(u) \in DOMAIN cv.text
          /\ TextFileName(u) \in DOMAIN cv'.text
          /\ cv'.text[TextFileName(u)] = cv.text[TextFileName(u)])
         => cv'.inode[cv'.text[TextFileName(u)]] = cv.inode[cv.text[TextFileName(u)]]]_vars

\* The conversions of run r that returned True
Successful(run) == {i \in DOMAIN run.task : run.task[i].result = Some(TRUE)}

\* C22: convert_pdfs returns the pair (success_count, failure_count) for every
\* set of downloaded documents, the empty one too: every selected document is
\* processed, success_count is the number of conversions that returned True,
\* and the two counts add up to the number of documents selected.
ConvertPdfsReturnsCounts ==
    \A r \in Runs :
        (cv.run[r].pc = "done" /\ cv.run[r].entry = "convert_pdfs") =>
            /\ \A i \in DOMAIN cv.run[r].task : cv.run[r].task[i].pc = "done"
            /\ cv.run[r].outcome =
                 Some(Returned(<<Cardinality(Successful(cv.run[r])),
                                 Len(cv.run[r].docs)
                                   - Cardinality(Successful(cv.run[r]))>>))

\* The conversions that have returned
Converted == {w \in Runs \X (1..MaxDocs) :
                /\ w[2] \in DOMAIN cv.run[w[1]].task
                /\ cv.run[w[1]].task[w[2]].pc = "done"}

\* The frame of conversion w
TaskOf(w) == cv.run[w[1]].task[w[2]]

\* C23: convert_pdf_to_text never propagates an exception: whatever is raised
\* while the row is fetched, the PDF opened or read, the staging file written
\* or renamed, or mark_document_parsed called, is handed with its message to
\* mark_document_failed, and the function returns False.
ConversionCatches ==
    \A w \in Converted :
        /\ TaskOf(w).result \in {Some(TRUE), Some(FALSE)}
        /\ TaskOf(w).exc # Null =>
             /\ TaskOf(w).result = Some(FALSE)
             /\ TaskOf(w).marks # <<>>
             /\ TaskOf(w).marks[Len(TaskOf(w).marks)]
                  = <<"failed", Str(TaskOf(w).exc[1])>>
        /\ TaskOf(w).dropped # {} =>
             /\ TaskOf(w).result = Some(FALSE)
             /\ TaskOf(w).marks # <<>>
             /\ TaskOf(w).marks[Len(TaskOf(w).marks)]
                  = <<"failed", Str(WriteError)>>

\* The pages of a conversion whose text reaches the staging file, in page order
Kept(task) ==
    SelectSeq([k \in 1..task.pages |-> k],
              LAMBDA k : k \notin task.bad \cup task.unwritable)

\* Conversion w found its document 'downloaded' and its PDF readable
Readable(w) ==
    /\ TaskOf(w).doc # Null
    /\ TaskOf(w).doc[1].processing_status = "downloaded"
    /\ TaskOf(w).pages > 0

\* C24: a page whose extraction raises never fails the document: whichever
\* pages of a readable PDF raise, all of them too, convert_pdf_to_text writes
\* the text of the other pages in page order, renames the staging file to the
\* final name, calls mark_document_parsed and returns True.
PageFailuresSkipped ==
    \A w \in Converted :
        Readable(w) =>
            /\ TaskOf(w).skipped = TaskOf(w).bad
            /\ TaskOf(w).result = Some(TRUE)
            /\ TaskOf(w).marks = <<<<"parsed", TextFileName(TaskOf(w).uuid)>>>>
            /\ TextFileName(TaskOf(w).uuid) \in DOMAIN cv.text
            /\ TempTextFileName(TaskOf(w).uuid) \notin DOMAIN cv.text
            /\ cv.inode[cv.text[TextFileName(TaskOf(w).uuid)]] = Kept(TaskOf(w))
            /\ db[TaskOf(w).uuid].processing_status = "parsed"

\* A document was converted although the extraction of its first page
\* raised: its text file holds the other pages
ConvertedWithoutPage ==
    \E w \in Converted :
        /\ Readable(w)
        /\ TaskOf(w).skipped = {1}
        /\ TaskOf(w).pages = MaxPdfPages
        /\ TaskOf(w).result = Some(TRUE)
        /\ cv.inode[cv.text[TextFileName(TaskOf(w).uuid)]]
             = [k \in 1..(MaxPdfPages - 1) |-> k + 1]

\* C25: the source PDF is deleted only after mark_document_parsed succeeded,
\* and the deletion is best-effort: when it fails convert_pdf_to_text still
\* returns True, the status stays 'parsed' and mark_document_failed is not
\* called.
DeletionBestEffort ==
    \A r \in Runs : \A i \in DOMAIN cv.run[r].task :
        cv.run[r].task[i].unlink # Null =>
            /\ cv.run[r].task[i].pc = "done"
            /\ cv.run[r].task[i].marks
                 = <<<<"parsed", TextFileName(cv.run[r].task[i].uuid)>>>>
            /\ cv.run[r].task[i].result = Some(TRUE)
            /\ cv.run[r].task[i].exc = Null
            /\ db[cv.run[r].task[i].uuid].processing_status = "parsed"
            /\ db[cv.run[r].task[i].uuid].error_message = Null

\* The PDF of a parsed document could not be deleted: it is still on disk,
\* and the conversion returned True
ParsedWithPdfLeft ==
    \E w \in Converted :
        /\ TaskOf(w).unlink = Some(Raised("PermissionError",
                                   "[Errno 13] Permission denied: "
                                     \o PdfFileName(TaskOf(w).uuid)))
        /\ PdfFileName(TaskOf(w).uuid) \in DOMAIN cv.pdfs
        /\ TaskOf(w).result = Some(TRUE)
        /\ db[TaskOf(w).uuid].processing_status = "parsed"

\* The file under a name of the text directory of c: its content, Null
\* when there is none
TextFile(c, name) ==
    IF name \in DOMAIN c.text THEN Some(c.inode[c.text[name]]) ELSE Null

\* The staging and the final path of a document
TextPaths(uuid) == {TempTextFileName(uuid), TextFileName(uuid)}

\* C29: within one convert_pdfs run no two workers process the same document,
\* and workers for different documents use disjoint staging and final paths
\* (both named by the document id), so no step of a worker, write or rename,
\* changes the staging or the final text file of another document.
WorkersDisjoint ==
    /\ [](\A r \in Runs : \A i, j \in DOMAIN cv.run[r].task :
            i # j =>
              /\ cv.run[r].task[i].uuid # cv.run[r].task[j].uuid
              /\ TextPaths(cv.run[r].task[i].uuid)
                   \cap TextPaths(cv.run[r].task[j].uuid) = {})
    /\ [][\A r \in Runs : \A i \in DOMAIN cv.run[r].task :
            (/\ i \in DOMAIN cv'.run[r].task
             /\ cv'.run[r].task[i] # cv.run[r].task[i])
            => \A u \in Uuids \ {cv.run[r].task[i].uuid} :
                 \A name \in TextPaths(u) :
                     TextFile(cv', name) = TextFile(cv, name)]_vars

\* Two workers of one run are at work at once: one writes its staging file
\* while the other has renamed its own to the final name
WorkersInterleaved ==
    \E r \in Runs : \E i, j \in DOMAIN cv.run[r].task :
        /\ cv.run[r].task[i].pc = "pages"
        /\ cv.run[r].task[i].off > 0
        /\ TempTextFileName(cv.run[r].task[i].uuid) \in DOMAIN cv.text
        /\ cv.run[r].task[j].pc = "replaced"
        /\ TextFileName(cv.run[r].task[j].uuid) \in DOMAIN cv.text

\* Conversion w found no row, or a row without a PDF file name
FailedFast(w) ==
    \/ TaskOf(w).doc = Null
    \/ TaskOf(w).doc[1].pdf_file_name \in {Null, Some("")}

\* C30: step 1 of the conversion fails fast and records the failure: without
\* a row, or without a PDF file name in it, convert_pdf_to_text returns False
\* and touches no file, and the row, when there is one, is left 'failed' with
\* a reason.
FailFastRecorded ==
    \A w \in Converted :
        FailedFast(w) =>
            /\ TaskOf(w).result = Some(FALSE)
            /\ TextPaths(TaskOf(w).uuid) \cap DOMAIN cv.text = {}
            /\ TaskOf(w).doc # Null =>
                 /\ db[TaskOf(w).uuid].processing_status = "failed"
                 /\ db[TaskOf(w).uuid].error_message # Null

\* The operations that change a stored document
Mutations == {"mark_document_downloaded", "mark_document_parsed", "mark_document_failed"}

\* The columns no mutation writes
Immutable(row) ==
    <<row.created_at, row.company_name, row.script_code, row.pdf_url,
      row.pdf_url_sha256, row.announcement_date>>

\* C28: mark_document_downloaded, mark_document_parsed and
\* mark_document_failed set updated_at to a clock reading taken during the
\* call, and change neither created_at, company_name, script_code, pdf_url,
\* pdf_url_sha256 or announcement_date of the document nor any field of any
\* other document: the statement writes the one row so, and the commit
\* publishes that row alone.
MutationFrame ==
    [][\A c \in Callers :
         /\ (pc[c] # "commit" /\ pc'[c] = "commit" /\ op'[c].name \in Mutations) =>
              \A u \in DOMAIN pending' :
                  /\ u = op'[c].uuid
                  /\ u \in DOMAIN db
                  /\ now <= pending'[u].updated_at
                  /\ pending'[u].updated_at <= now'
                  /\ Immutable(pending'[u]) = Immutable(db[u])
         /\ (pc[c] = "commit" /\ pc'[c] # "commit" /\ op[c].name \in Mutations) =>
              /\ DOMAIN db' = DOMAIN db
              /\ \A u \in DOMAIN db :
                   IF u = op[c].uuid
                   THEN /\ db'[u] = pending[u]
                        /\ Immutable(db'[u]) = Immutable(db[u])
                   ELSE db'[u] = db[u]]_vars

\* A document was marked failed later than it was created, another document
\* being stored beside it
MutatedLater ==
    \E u, v \in DOMAIN db :
        /\ u # v
        /\ db[u].processing_status = "failed"
        /\ db[u].updated_at > db[u].created_at
        /\ \E call \in finished :
             call.name = "mark_document_failed" /\ call.uuid = u

\* new is old after one complete transition: status, file name and timestamps
\* written together by one of the three UPDATE statements
WholeTransition(old, new) ==
    \/ /\ DownloadedWhere(old)
       /\ new.pdf_file_name # Null /\ new.pdf_created_at # Null
       /\ new = DownloadedSet(old, new.pdf_file_name[1], new.updated_at,
                              new.pdf_created_at[1])
    \/ /\ ParsedWhere(old)
       /\ new.text_file_name # Null /\ new.text_file_created_at # Null
       /\ new = ParsedSet(old, new.text_file_name[1], new.updated_at,
                          new.text_file_created_at[1])
    \/ /\ new.error_message # Null
       /\ new = FailedSet(old, new.error_message[1], new.updated_at)

\* A row as INSERT leaves it
WholeInsert(new) ==
    /\ new.processing_status = "discovered"
    /\ new.pdf_file_name = Null /\ new.pdf_created_at = Null
    /\ new.text_file_name = Null /\ new.text_file_created_at = Null
    /\ new.error_message = Null

DiscoveredPickedUp ==
    <>(\A u \in DOMAIN db : db[u].processing_status # "discovered")

\* The conversions of document u that called mark_document_parsed
ParsedBy(u) ==
    {w \in Runs \X (1..MaxDocs) :
        /\ w[2] \in DOMAIN cv.run[w[1]].task
        /\ cv.run[w[1]].task[w[2]].uuid = u
        /\ cv.run[w[1]].task[w[2]].pc \in {"parsed", "done"}
        /\ cv.run[w[1]].task[w[2]].marks # <<>>
        /\ cv.run[w[1]].task[w[2]].marks[1] = <<"parsed", TextFileName(u)>>}

StagingNeverLeft ==
    /\ \A u, v \in Uuids : TempTextFileName(u) # TextFileName(v)
    /\ \A w \in Converted : TempTextFileName(TaskOf(w).uuid) \notin DOMAIN cv.text

\* The conversions of the process that runs after the first was killed
Reconverted == {w \in Converted : w[1] = "second" /\ cv.run["first"].pc = "killed"}

\* C33: re-running the conversion after a crash is idempotent: when a
\* conversion of a 'downloaded' document was interrupted at any step before
\* mark_document_parsed (the staging file partly written, or the final text
\* file already renamed into place), a later convert_pdf_to_text on the same
\* document returns True, the document ends 'parsed', and its text file holds
\* what an uninterrupted conversion writes, with no staging file left.
RerunAfterCrash ==
    \A w \in Reconverted :
        Readable(w) =>
            /\ TaskOf(w).result = Some(TRUE)
            /\ db[TaskOf(w).uuid].processing_status = "parsed"
            /\ db[TaskOf(w).uuid].text_file_name = Some(TextFileName(TaskOf(w).uuid))
            /\ TextFileName(TaskOf(w).uuid) \in DOMAIN cv.text
            /\ cv.inode[cv.text[TextFileName(TaskOf(w).uuid)]] = Kept(TaskOf(w))
            /\ TempTextFileName(TaskOf(w).uuid) \notin DOMAIN cv.text

\* The first process was killed with page 1 in the staging file, and the
\* conversion of the second process returned True
RerunAfterPartialStaging ==
    \E w \in Reconverted :
        /\ Readable(w)
        /\ TaskOf(w).result = Some(TRUE)
        /\ cv.run["first"].task[1].uuid = TaskOf(w).uuid
        /\ cv.run["first"].task[1].pc = "pages"
        /\ cv.run["first"].task[1].off = 1

\* C34: the cleanup sweep deletes a document row only together with its
\* on-disk artifacts: whatever the status of the row, once clean_up_files has
\* deleted it neither the PDF file nor the text file of that document is on
\* disk.
CleanupReclaims ==
    [][\A u \in DOMAIN db :
         u \notin DOMAIN db' =>
            /\ PdfFileName(u) \notin DOMAIN cv'.pdfs
            /\ TextFileName(u) \notin DOMAIN cv'.text]_vars

\* The stored rows of the announcement item, under either base location
RowsOf(item) ==
    {u \in DOMAIN db :
        db[u].pdf_url \in {BSE_PDF_URL_PAST \o item.ATTACHMENTNAME,
                           BSE_PDF_URL_CURRENT \o item.ATTACHMENTNAME}}

\* C35: the dedup key keeps an announcement from being registered twice
\* whenever it is registered: once transcripts_to_dbstate has been called on
\* a raw announcement, at whatever wall-clock times and however often, on
\* either side of the archival threshold, exactly one row of that
\* announcement is stored.
RegisteredOnceAtAnyTime ==
    \A r \in finished :
        r.name = "transcripts_to_dbstate" =>
            \A i \in 1..Len(r.arg) : Cardinality(RowsOf(r.arg[i])) = 1

\* The other process fetched document u and called mark_document_downloaded
FetchedByOther(u) ==
    \E k \in 1..Len(main.fetch) : main.ids[k] = u /\ main.fetch[k].type = "return"

\* C36: when two download tasks process the same 'discovered' document and
\* both fetches succeed, the document ends in status 'downloaded' in every
\* interleaving: the task that loses the mark_document_downloaded race
\* neither changes the status nor records an error on the row.
DownloadRaceHarmless ==
    \A u \in dl.uuids :
        (/\ dl.task[u] = "done"
         /\ dl.fetch[u] = Some(Returned(Null))
         /\ FetchedByOther(u)) =>
            /\ db[u].processing_status = "downloaded"
            /\ db[u].error_message = Null

\* C37: a document that one conversion worker has moved to 'parsed' is never
\* afterwards set to 'failed' by another conversion of the same document
\* running at the same time (one that finds the PDF already deleted, or whose
\* mark_document_parsed is rejected because the status is 'parsed' already).
ParsedNotFailedByRival ==
    [][\A r \in Runs : \A i \in DOMAIN cv.run[r].task :
         (/\ cv.run[r].task[i].doc # Null
          /\ cv.run[r].task[i].doc[1].processing_status = "downloaded"
          /\ cv'.run[r].task # cv.run[r].task
          /\ db[cv.run[r].task[i].uuid].processing_status = "parsed")
            => db'[cv.run[r].task[i].uuid].processing_status = "parsed"]_vars

FailedDownloadLeavesNoFile ==
    dl.pc = "done" =>
        \A u \in dl.uuids :
            PdfFileName(u) \in DOMAIN dl.files =>
                /\ u \in DOMAIN db
                /\ db[u].processing_status = "downloaded"

\* C40: mark_document_failed on an id that has no row is a silent no-op: the
\* statement writes no row, the call returns without an error, and the commit
\* leaves the table as it was, creating no row and changing none.
FailedOnMissingIsNoOp ==
    [][\A c \in Callers :
         /\ Calls(c) => \A u \in Uuids \ DOMAIN db, r \in Reasons :
            RunsFailed(c, u, r) =>
              /\ pc'[c] = "commit"
              /\ pending' = NoRows
              /\ db' = db
         /\ Commit(c) => \A u \in Uuids \ DOMAIN db, r \in Reasons :
            op[c] = FailedCall(u, r) =>
              /\ Call(FailedCall(u, r), Returned(<<>>)) \in finished'
              /\ db' = db
      ]_vars

\* A mark_document_failed call on an id without a row has returned, the
\* store holding another document
FailedOnMissingReturned ==
    \E r \in finished :
        /\ r.name = "mark_document_failed"
        /\ r.result = Returned(<<>>)
        /\ r.uuid \notin DOMAIN db
        /\ DOMAIN db # {}

====
